---- MODULE Spec2Model ----
(***************************************************************************)
(* Forward warp-specialized GDPA kernel (gdpa_kernel_tma_ws_blackwell) of  *)
(* tritonbench/operators/gdpa/gdpa_blackwell_tlx.py, as a state machine.   *)
(*                                                                         *)
(* One execution unit (CTA) is modelled: its barriers and buffers are      *)
(* private to it, so units do not interact.  The unit runs five            *)
(* partitions (activation 0, activation 1, MMA, load, epilogue) over the   *)
(* same list of tiles; the asynchronous engines (TMA loads, tcgen05        *)
(* matmuls and commits) complete on their own.  A step of a partition is   *)
(* one barrier wait together with the non-blocking statements that follow  *)
(* it up to the next wait or shared-memory access without a wait.          *)
(*                                                                         *)
(* A barrier is modelled by the number of phases it has completed; a wait  *)
(* looks only at the parity of that number, as the hardware does.          *)
(* Buffers hold symbolic values that say which tile and step the data      *)
(* came from, so data flow can be compared with what was intended.         *)
(***************************************************************************)
EXTENDS Integers, Sequences, FiniteSets, TLC

\* ----------------------------------------------------------------- bounds
\* number of tiles the unit iterates over (tiles_per_sm)
MaxTiles == 2
\* largest number of inner key/value steps of a tile
MaxSteps == 3
\* calls of the entry point: batch size, heads, query tiles per sequence,
\* key rows per sequence, execution units
MaxBatch == 2
MaxHeads == 2
MaxQTiles == 2
MaxKeyRows == 2
MaxSMs == 3
\* backward kernel: largest key block index of a program (pid), and the
\* largest number of query blocks of a sequence
MaxKeyBlocks == 2
MaxQBlocks == 3

\* ------------------------------------------------------ program constants
BLOCK_M == 256
BLOCK_N == 128

\* The configurations the autotuner can launch: only PINGPONG varies
\* (ACT_REGS is a register budget and does not change the protocol).
get_cuda_autotune_config ==
    { [ NUM_BUFFERS_Q  |-> 1, NUM_BUFFERS_KV |-> 3,
        NUM_BUFFERS_QK |-> 1, NUM_BUFFERS_O  |-> 1,
        PINGPONG |-> pp ] : pp \in BOOLEAN }

\* ------------------------------------------------------------------ state
VARIABLES
    cfg,      \* the launched configuration (constexpr arguments)
    tiles,    \* per outer iteration idx: what _compute_qlen and start_m give
    bar,      \* barrier name -> slot -> number of completed phases
    q_buf,    \* q0_buf, q1_buf: half -> slot -> value
    kv_buf,   \* kv_buf: slot -> value
    qk_buf,   \* qk0_buf/p0_buf and qk1_buf/p1_buf (same memory): half -> slot -> value
    o_buf,    \* o0_buf, o1_buf accumulators: half -> slot -> set of contributions
    o_smem,   \* o0_smem, o1_smem staging buffers: half -> value
    Out,      \* what the bulk store wrote, per outer iteration
    act,      \* the two activation partitions' local state
    mma,      \* the MMA partition's local state
    load,     \* the load partition's local state
    epi,      \* the epilogue partition's local state
    tc,       \* tcgen05 operations issued and not completed, in issue order
    tma,      \* TMA loads issued and not completed
    p_consumed, \* history: half -> slot -> the slot's content has been read
                \* by a completed p . v matmul
    args,     \* gdpa_forward_tlx: the arguments of the call
    fwd,      \* gdpa_forward_tlx: where the call is, and the grid it launched
    progs,    \* per launched program: its tile loop (idx, tile_idx, tiles_per_sm)
    visits,   \* history: the tiles the programs' loops went through
    o,        \* the output tensor, per (batch, head, query tile)
    bwd_cfg,  \* gdpa_backward_tlx: constexpr arguments and the program's tile
    bwd_pc,   \* gdpa_backward_tlx: compiled, running or rejected
    bwd_bar,  \* backward barriers: name -> slot -> number of completed phases
    bwd_part, \* the backward partitions' local state
    bwd_mem,  \* backward on-chip buffers: name -> slot -> content
    bwd_tc,   \* backward tcgen05 operations issued and not completed
    bwd_tma,  \* backward TMA loads issued and not completed
    bwd_out,  \* what the backward program wrote to dQ, DK and DV
    drv       \* the benchmark driver: its inputs, where it is, what it ran

\* the state of one unit of the forward kernel, of the entry point, and of
\* one program of the backward kernel
kernelVars == << cfg, tiles, bar, q_buf, kv_buf, qk_buf, o_buf, o_smem, Out,
                 act, mma, load, epi, tc, tma, p_consumed >>
hostVars == << args, fwd, progs, visits, o >>
bwdVars == << bwd_cfg, bwd_pc, bwd_bar, bwd_part, bwd_mem, bwd_tc, bwd_tma,
              bwd_out >>
drvVars == << drv >>

vars == << kernelVars, hostVars, bwdVars, drvVars >>

\* ---------------------------------------------------------------- helpers
\* a & b on non-negative integers, bit by bit
RECURSIVE BitAnd(_, _)
BitAnd(a, b) ==
    IF a = 0 \/ b = 0 THEN 0
    ELSE (a % 2) * (b % 2) + 2 * BitAnd(a \div 2, b \div 2)

\* the phase kept as the whole quotient instead of its lowest bit
_get_bufidx_phase_NoMask(accum_cnt, NUM_BUFFERS) ==
    << accum_cnt % NUM_BUFFERS, accum_cnt \div NUM_BUFFERS >>

\* _get_bufidx_phase: << bufIdx, phase >>
_get_bufidx_phase(accum_cnt, NUM_BUFFERS) ==
    << accum_cnt % NUM_BUFFERS, BitAnd(accum_cnt \div NUM_BUFFERS, 1) >>

\* the inline form used by the activation and load partitions
InlineBufIdx(accum_cnt, NUM_BUFFERS) == accum_cnt % NUM_BUFFERS
InlinePhase(accum_cnt, NUM_BUFFERS) == BitAnd(accum_cnt \div NUM_BUFFERS, 1)

\* phase ^ 1
Flip(phase) == 1 - phase

\* tlx.barrier_wait(bars[slot], phase) returns once the phase of parity
\* `phase` has completed, i.e. when the barrier's current phase has the
\* other parity.
BarrierPassed(b, slot, phase) == bar[b][slot] % 2 # phase

\* one arrival on a barrier of arrive_count 1 completes its current phase
RECURSIVE ArriveAll(_, _)
ArriveAll(bs, refs) ==
    IF refs = << >> THEN bs
    ELSE ArriveAll([bs EXCEPT ![refs[1][1]][refs[1][2]] = @ + 1], Tail(refs))

\* the guard left out: every tile is taken as inside its sequence
Processed_Always(t) == TRUE

\* the guard of every partition: start_m * BLOCK_M < qlen
Processed(t) == t.start_m * BLOCK_M < t.qlen

tiles_per_sm == Len(tiles)
Tile(idx) == tiles[idx + 1]

\* symbolic values
NoVal == [kind |-> "none"]
Busy == [kind |-> "busy"]
QVal(i, idx) == [kind |-> "Q", h |-> i, t |-> idx]
KVal(idx, start_n) == [kind |-> "K", t |-> idx, s |-> start_n]
VVal(idx, start_n) == [kind |-> "V", t |-> idx, s |-> start_n]

BarrierNames ==
    { "consumer_q0", "consumer_q1", "consumer_release_q0", "consumer_release_q1",
      "consumer_kv", "consumer_release_kv",
      "producer_qk0", "producer_commit_qk0", "producer_qk1", "producer_commit_qk1",
      "producer_o0", "producer_commit_o0", "producer_o1", "producer_commit_o1",
      "producer_pp", "producer_commit_pp" }

\* the barriers as allocated, without the arrivals on consumer_release_kv
alloc_barriers_NoArrive(c) ==
    [ b \in BarrierNames |->
        [s \in 0 .. (CASE b \in {"consumer_q0", "consumer_q1",
                                 "consumer_release_q0", "consumer_release_q1"} ->
                              c.NUM_BUFFERS_Q
                        [] b \in {"consumer_kv", "consumer_release_kv"} ->
                              c.NUM_BUFFERS_KV
                        [] b \in {"producer_qk0", "producer_commit_qk0",
                                  "producer_qk1", "producer_commit_qk1"} ->
                              c.NUM_BUFFERS_QK
                        [] OTHER -> c.NUM_BUFFERS_O) - 1 |-> 0] ]

\* tlx.alloc_barriers with the counts of the source; consumer_release_kv[0..2]
\* are arrived once before the partitions start.
alloc_barriers(c) ==
    [ b \in BarrierNames |->
        CASE b \in {"consumer_q0", "consumer_q1",
                    "consumer_release_q0", "consumer_release_q1"} ->
                 [s \in 0 .. c.NUM_BUFFERS_Q - 1 |-> 0]
          [] b = "consumer_kv" -> [s \in 0 .. c.NUM_BUFFERS_KV - 1 |-> 0]
          [] b = "consumer_release_kv" ->
                 [s \in 0 .. c.NUM_BUFFERS_KV - 1 |-> IF s \in 0 .. 2 THEN 1 ELSE 0]
          [] b \in {"producer_qk0", "producer_commit_qk0",
                    "producer_qk1", "producer_commit_qk1"} ->
                 [s \in 0 .. c.NUM_BUFFERS_QK - 1 |-> 0]
          [] OTHER -> [s \in 0 .. c.NUM_BUFFERS_O - 1 |-> 0] ]

\* names of the per-half barriers
consumer_q(i) == IF i = 0 THEN "consumer_q0" ELSE "consumer_q1"
consumer_release_q(i) == IF i = 0 THEN "consumer_release_q0" ELSE "consumer_release_q1"
producer_qk(i) == IF i = 0 THEN "producer_qk0" ELSE "producer_qk1"
producer_commit_qk(i) == IF i = 0 THEN "producer_commit_qk0" ELSE "producer_commit_qk1"
producer_o(i) == IF i = 0 THEN "producer_o0" ELSE "producer_o1"
producer_commit_o(i) == IF i = 0 THEN "producer_commit_o0" ELSE "producer_commit_o1"

\* no call of the entry point is being followed
\* no backward program is followed
NoBackward ==
    /\ bwd_cfg = << >> /\ bwd_pc = "none" /\ bwd_bar = << >>
    /\ bwd_part = << >> /\ bwd_mem = << >> /\ bwd_tc = << >>
    /\ bwd_tma = {} /\ bwd_out = << >>

\* the benchmark driver is not followed
NoDriver == drv = [pc |-> "none"]

NoCall ==
    /\ args = << >>
    /\ fwd = [pc |-> "none"]
    /\ progs = << >>
    /\ visits = {}
    /\ o = << >>

\* ------------------------------------------------------------------- Init
\* key lengths with 1 .. MaxSteps inner steps (the smallest of each)
KlenChoices == { (k - 1) * BLOCK_N + 1 : k \in 1 .. MaxSteps }

\* a tile inside its sequence (start row 0) or past its end (skipped)
TileChoices ==
    { [start_m |-> 0, qlen |-> BLOCK_M, klen |-> k] : k \in KlenChoices }
    \cup { [start_m |-> 1, qlen |-> BLOCK_M, klen |-> BLOCK_N] }

InitWith(configs, tileSet) ==
    /\ cfg \in configs
    /\ tiles \in [1 .. MaxTiles -> tileSet]
    /\ bar = alloc_barriers(cfg)
    /\ q_buf = [i \in 0 .. 1 |-> [s \in 0 .. 0 |-> NoVal]]
    /\ kv_buf = [s \in 0 .. cfg.NUM_BUFFERS_KV - 1 |-> NoVal]
    /\ qk_buf = [i \in 0 .. 1 |-> [s \in 0 .. 0 |-> NoVal]]
    /\ o_buf = [i \in 0 .. 1 |-> [s \in 0 .. 0 |-> {}]]
    /\ o_smem = [i \in 0 .. 1 |-> NoVal]
    /\ Out = [idx \in 0 .. MaxTiles - 1 |-> << >>]
    /\ act = [i \in 0 .. 1 |->
                [pc |-> "tile", idx |-> 0, start_n |-> 0, accum_cnt |-> 0,
                 accum_cnt_outer |-> 0, x |-> NoVal, o |-> {}]]
    /\ mma = [pc |-> "tile", idx |-> 0, it |-> 0, first |-> TRUE, v_view |-> 0,
              accum_cnt_q |-> 0, accum_cnt_kv |-> 0, accum_cnt_o |-> 0,
              accum_cnt_qk |-> 0, accum_cnt_outer |-> 0,
              accum_cnt_qk1 |-> 0, accum_cnt_o1 |-> 0,
              acq_o0 |-> 0, acq_o1 |-> 0]
    /\ load = [pc |-> "tile", idx |-> 0, start_n |-> 0,
               accum_count_q |-> 0, accum_cnt_kv |-> 0]
    /\ epi = [pc |-> "tile", idx |-> 0, accum_cnt_outer |-> 0]
    /\ tc = << >>
    /\ tma = {}
    /\ p_consumed = [i \in 0 .. 1 |-> [s \in 0 .. 0 |-> FALSE]]
    /\ NoCall
    /\ NoBackward
    /\ NoDriver

Init == InitWith(get_cuda_autotune_config, TileChoices)

\* ------------------------------------------------- activation partitions
\* the elementwise transform, stored under the name p in the slot of qk
Activation(x) == [kind |-> "p", of |-> x]

\* top of the inner loop `for start_n in range(lo, hi, BLOCK_N)`
ActAtLoopHead(a) ==
    \/ a.pc = "loop"
    \/ /\ a.pc = "tile"
       /\ a.idx < tiles_per_sm
       /\ Processed(Tile(a.idx))

\* a tile whose start row is not below qlen: nothing but tile_idx += num_progs
ActSkip(i) ==
    /\ act[i].pc = "tile"
    /\ act[i].idx < tiles_per_sm
    /\ ~Processed(Tile(act[i].idx))
    /\ act' = [act EXCEPT ![i].idx = @ + 1]
    /\ UNCHANGED << cfg, tiles, bar, q_buf, kv_buf, qk_buf, o_buf, o_smem, Out,
                    mma, load, epi, tc, tma, p_consumed,
                    hostVars, bwdVars, drvVars >>

\* the wait left out: the partition reads the slot at once
ActConsumerWaitQK_NoWait(i, accum_cnt) == TRUE

\* consumer wait of activation partition i for qk_i:
\* barrier_wait(producer_commit_qk_i[bufIdx], phase)
ActConsumerWaitQK(i, accum_cnt) ==
    BarrierPassed(producer_commit_qk(i),
                  InlineBufIdx(accum_cnt, cfg.NUM_BUFFERS_QK),
                  InlinePhase(accum_cnt, cfg.NUM_BUFFERS_QK))

\* the consumer wait for qk_i, then local_load of both halves of qk_view
\* into registers
ActWaitQK(i) ==
    LET a == act[i]
        bufIdx == InlineBufIdx(a.accum_cnt, cfg.NUM_BUFFERS_QK)
    IN  /\ ActAtLoopHead(a)
        /\ a.start_n < Tile(a.idx).klen
        /\ ActConsumerWaitQK(i, a.accum_cnt)
        /\ act' = [act EXCEPT ![i].pc = IF cfg.PINGPONG THEN "pp" ELSE "act",
                              ![i].x = qk_buf[i][bufIdx]]
        /\ UNCHANGED << cfg, tiles, bar, q_buf, kv_buf, qk_buf, o_buf, o_smem,
                        Out, mma, load, epi, tc, tma, p_consumed,
                    hostVars, bwdVars, drvVars >>

\* the ping-pong wait of partition i (NAME_BARRIER is False at launch):
\* partition 0 acquires producer_pp at phase ^ 1, partition 1 waits
\* producer_commit_pp at phase
PingPongPassed_NoWait(i, phase) == TRUE

PingPongPassed(i, phase) ==
    IF i = 0 THEN BarrierPassed("producer_pp", 0, Flip(phase))
    ELSE BarrierPassed("producer_commit_pp", 0, phase)

\* the ping-pong arrival of partition i after its store
PingPongArrive(i) ==
    IF i = 0 THEN << "producer_commit_pp", 0 >> ELSE << "producer_pp", 0 >>

\* if PINGPONG: the ping-pong wait that opens the tanh-and-store section
ActPingPongWait(i) ==
    LET a == act[i]
        phase == InlinePhase(a.accum_cnt, cfg.NUM_BUFFERS_QK)
    IN  /\ a.pc = "pp"
        /\ PingPongPassed(i, phase)
        /\ act' = [act EXCEPT ![i].pc = "act"]
        /\ UNCHANGED << cfg, tiles, bar, q_buf, kv_buf, qk_buf, o_buf, o_smem,
                        Out, mma, load, epi, tc, tma, p_consumed,
                    hostVars, bwdVars, drvVars >>

\* tanh, local_store of p into the slot of qk, arrive on producer_qk_i
\* (, ping-pong arrive, which closes the section); accum_cnt += 1
ActStoreP(i) ==
    LET a == act[i]
        bufIdx == InlineBufIdx(a.accum_cnt, cfg.NUM_BUFFERS_QK)
    IN  /\ a.pc = "act"
        /\ qk_buf' = [qk_buf EXCEPT ![i][bufIdx] = Activation(a.x)]
        /\ bar' = ArriveAll(bar,
                    << << producer_qk(i), bufIdx >> >>
                    \o (IF cfg.PINGPONG THEN << PingPongArrive(i) >> ELSE << >>))
        /\ act' = [act EXCEPT ![i].pc = "loop", ![i].x = NoVal,
                              ![i].accum_cnt = @ + 1,
                              ![i].start_n = @ + BLOCK_N]
        /\ UNCHANGED << cfg, tiles, q_buf, kv_buf, o_buf, o_smem, Out,
                        mma, load, epi, tc, tma, p_consumed,
                    hostVars, bwdVars, drvVars >>

\* tlx.local_load(tlx.local_view(o_i_buf, s)): o0_buf and o1_buf are
\* allocated with one slot; a view of any other slot addresses tensor memory
\* outside the buffer, which holds nothing or one of the accumulators
local_load_o(i, s) ==
    IF s \in DOMAIN o_buf[i] THEN { o_buf[i][s] }
    ELSE { {} } \cup { o_buf[j][0] : j \in 0 .. 1 }

\* a matmul into tlx.local_view(o_i_buf, s): the slot is overwritten or
\* accumulated into; a view outside the buffer hits the memory of one of the
\* accumulators or of neither
async_dot_o(i, s, c, use_acc) ==
    IF s \in DOMAIN o_buf[i]
    THEN { [o_buf EXCEPT ![i][s] = IF use_acc THEN @ \cup {c} ELSE {c}] }
    ELSE { o_buf }
         \cup { [o_buf EXCEPT ![j][0] = IF use_acc THEN @ \cup {c} ELSE {c}] :
                  j \in 0 .. 1 }

\* after the inner loop: local_load of the accumulator o_i (the wait on
\* producer_commit_o_i is commented out in the source), arrive on producer_o_i
ActEpiLoad(i) ==
    LET a == act[i]
        bufIdx_o_outer == _get_bufidx_phase(a.accum_cnt_outer, cfg.NUM_BUFFERS_O)[1]
    IN  /\ ActAtLoopHead(a)
        /\ ~(a.start_n < Tile(a.idx).klen)
        /\ \E o_i \in local_load_o(i, bufIdx_o_outer) :
              act' = [act EXCEPT ![i].pc = "epi", ![i].o = o_i]
        /\ bar' = ArriveAll(bar, << << producer_o(i), bufIdx_o_outer >> >>)
        /\ UNCHANGED << cfg, tiles, q_buf, kv_buf, qk_buf, o_buf, o_smem, Out,
                        mma, load, epi, tc, tma, p_consumed,
                    hostVars, bwdVars, drvVars >>

\* MERGE_EPI is False at launch: local_store(o_i_smem[0], o_i);
\* accum_cnt_outer += 1; tile_idx += num_progs
ActEpiStore(i) ==
    LET a == act[i]
    IN  /\ a.pc = "epi"
        /\ o_smem' = [o_smem EXCEPT ![i] = [kind |-> "o", t |-> a.idx, o |-> a.o]]
        /\ act' = [act EXCEPT ![i].pc = "tile", ![i].o = {}, ![i].start_n = 0,
                              ![i].accum_cnt_outer = @ + 1, ![i].idx = @ + 1]
        /\ UNCHANGED << cfg, tiles, bar, q_buf, kv_buf, qk_buf, o_buf, Out,
                        mma, load, epi, tc, tma, p_consumed,
                    hostVars, bwdVars, drvVars >>

\* ------------------------------------------------------ epilogue partition
EpiSkip ==
    /\ epi.idx < tiles_per_sm
    /\ ~Processed(Tile(epi.idx))
    /\ epi' = [epi EXCEPT !.idx = @ + 1]
    /\ UNCHANGED << cfg, tiles, bar, q_buf, kv_buf, qk_buf, o_buf, o_smem, Out,
                    act, mma, load, tc, tma, p_consumed,
                    hostVars, bwdVars, drvVars >>

\* the two async_descriptor_store calls of a processed tile; the partition
\* waits on no barrier before them
EpiStore ==
    /\ epi.idx < tiles_per_sm
    /\ Processed(Tile(epi.idx))
    /\ Out' = [Out EXCEPT ![epi.idx] = << o_smem[0], o_smem[1] >>]
    /\ epi' = [epi EXCEPT !.idx = @ + 1, !.accum_cnt_outer = @ + 1]
    /\ UNCHANGED << cfg, tiles, bar, q_buf, kv_buf, qk_buf, o_buf, o_smem,
                    act, mma, load, tc, tma, p_consumed,
                    hostVars, bwdVars, drvVars >>

\* ------------------------------------------------------ asynchronous units
\* what an operand reference points at
ReadRef(r) ==
    CASE r[1] = "q" -> q_buf[r[2]][r[3]]
      [] r[1] = "kv" -> kv_buf[r[3]]
      [] r[1] = "qk" -> qk_buf[r[2]][r[3]]

\* a TMA load completes: the data is in the buffer and the transaction
\* count of the full barrier is met, which completes its phase
TmaComplete ==
    \E l \in tma :
        /\ tma' = tma \ {l}
        /\ q_buf' = IF l.dst[1] = "q"
                    THEN [q_buf EXCEPT ![l.dst[2]][l.dst[3]] = l.val] ELSE q_buf
        /\ kv_buf' = IF l.dst[1] = "kv"
                     THEN [kv_buf EXCEPT ![l.dst[3]] = l.val] ELSE kv_buf
        /\ bar' = ArriveAll(bar, << l.full >>)
        /\ UNCHANGED << cfg, tiles, qk_buf, o_buf, o_smem, Out,
                        act, mma, load, epi, tc, p_consumed,
                    hostVars, bwdVars, drvVars >>

\* the oldest tcgen05 operation completes (they complete in issue order):
\* a matmul reads its operands, writes or accumulates its destination and
\* arrives on its mBarriers; a tcgen05_commit only arrives
TcComplete ==
    /\ tc # << >>
    /\ LET h == Head(tc)
           c == [p |-> ReadRef(h.a), v |-> ReadRef(h.b)]
       IN  /\ qk_buf' =
                 IF h.op = "dot" /\ h.d[1] = "qk"
                 THEN [qk_buf EXCEPT ![h.d[2]][h.d[3]] =
                          [kind |-> "qk", q |-> ReadRef(h.a), k |-> ReadRef(h.b)]]
                 ELSE qk_buf
           /\ p_consumed' =
                 IF h.op = "dot" /\ h.d[1] = "qk"
                 THEN [p_consumed EXCEPT ![h.d[2]][h.d[3]] = FALSE]
                 ELSE IF h.op = "dot" /\ h.d[1] = "o"
                 THEN [p_consumed EXCEPT ![h.a[2]][h.a[3]] = TRUE]
                 ELSE p_consumed
           /\ IF h.op = "dot" /\ h.d[1] = "o"
              THEN o_buf' \in async_dot_o(h.d[2], h.d[3], c, h.use_acc)
              ELSE o_buf' = o_buf
           /\ bar' = ArriveAll(bar, h.mBarriers)
    /\ tc' = Tail(tc)
    /\ UNCHANGED << cfg, tiles, q_buf, kv_buf, o_smem, Out,
                    act, mma, load, epi, tma,
                    hostVars, bwdVars, drvVars >>

\* ---------------------------------------------------------- load partition
\* barrier_expect_bytes + async_descriptor_load: the transfer is in flight,
\* the destination holds no defined data until it completes
TmaIssue(dst, val, full) == [dst |-> dst, val |-> val, full |-> full]

LoadSkip ==
    /\ load.pc = "tile"
    /\ load.idx < tiles_per_sm
    /\ ~Processed(Tile(load.idx))
    /\ load' = [load EXCEPT !.idx = @ + 1]
    /\ UNCHANGED << cfg, tiles, bar, q_buf, kv_buf, qk_buf, o_buf, o_smem, Out,
                    act, mma, epi, tc, tma, p_consumed,
                    hostVars, bwdVars, drvVars >>

\* producer acquire of q_i (consumer_release_q_i at q_phase ^ 1), then the
\* load of the half tile; i = 0 is followed by K, i = 1 by V
LoadQ(i) ==
    LET q_bufIdx == InlineBufIdx(load.accum_count_q, cfg.NUM_BUFFERS_Q)
        q_phase == InlinePhase(load.accum_count_q, cfg.NUM_BUFFERS_Q)
    IN  /\ IF i = 0
           THEN /\ load.pc = "tile"
                /\ load.idx < tiles_per_sm
                /\ Processed(Tile(load.idx))
           ELSE load.pc = "q1"
        /\ BarrierPassed(consumer_release_q(i), q_bufIdx, Flip(q_phase))
        /\ tma' = tma \cup { TmaIssue(<< "q", i, q_bufIdx >>, QVal(i, load.idx),
                                      << consumer_q(i), q_bufIdx >>) }
        /\ q_buf' = [q_buf EXCEPT ![i][q_bufIdx] = Busy]
        /\ load' = [load EXCEPT !.pc = IF i = 0 THEN "k" ELSE "v"]
        /\ UNCHANGED << cfg, tiles, bar, kv_buf, qk_buf, o_buf, o_smem, Out,
                        act, mma, epi, tc, p_consumed,
                    hostVars, bwdVars, drvVars >>

\* the acquire left out: the load is issued at once
LoadAcquireKV_NoWait(accum_cnt) == TRUE

\* producer acquire of the K/V slot of use accum_cnt: consumer_release_kv
\* at the phase itself, the barriers having been arrived once at allocation
LoadAcquireKV(accum_cnt) ==
    LET bp == _get_bufidx_phase(accum_cnt, cfg.NUM_BUFFERS_KV)
    IN  BarrierPassed("consumer_release_kv", bp[1], bp[2])

\* producer acquire of a K slot, then the load of K
LoadK ==
    LET k_bufIdx == _get_bufidx_phase(load.accum_cnt_kv, cfg.NUM_BUFFERS_KV)[1]
    IN  /\ load.pc \in {"k", "lk"}
        /\ LoadAcquireKV(load.accum_cnt_kv)
        /\ tma' = tma \cup { TmaIssue(<< "kv", 0, k_bufIdx >>,
                                      KVal(load.idx, load.start_n),
                                      << "consumer_kv", k_bufIdx >>) }
        /\ kv_buf' = [kv_buf EXCEPT ![k_bufIdx] = Busy]
        /\ load' = [load EXCEPT !.pc = IF load.pc = "k" THEN "q1" ELSE "lv"]
        /\ UNCHANGED << cfg, tiles, bar, q_buf, qk_buf, o_buf, o_smem, Out,
                        act, mma, epi, tc, p_consumed,
                    hostVars, bwdVars, drvVars >>

\* producer acquire of a V slot, the load of V, accum_cnt_kv += 2, and the
\* test of `for start_n in range(BLOCK_N, hi, BLOCK_N)`; after the loop
\* accum_count_q += 1 and tile_idx += num_progs
LoadV ==
    LET v_bufIdx == _get_bufidx_phase(load.accum_cnt_kv + 1, cfg.NUM_BUFFERS_KV)[1]
        next_n == load.start_n + BLOCK_N
    IN  /\ load.pc \in {"v", "lv"}
        /\ LoadAcquireKV(load.accum_cnt_kv + 1)
        /\ tma' = tma \cup { TmaIssue(<< "kv", 0, v_bufIdx >>,
                                      VVal(load.idx, load.start_n),
                                      << "consumer_kv", v_bufIdx >>) }
        /\ kv_buf' = [kv_buf EXCEPT ![v_bufIdx] = Busy]
        /\ load' = IF next_n < Tile(load.idx).klen
                   THEN [load EXCEPT !.pc = "lk", !.start_n = next_n,
                                     !.accum_cnt_kv = @ + 2]
                   ELSE [load EXCEPT !.pc = "tile", !.start_n = 0,
                                     !.accum_cnt_kv = @ + 2,
                                     !.accum_count_q = @ + 1, !.idx = @ + 1]
        /\ UNCHANGED << cfg, tiles, bar, q_buf, qk_buf, o_buf, o_smem, Out,
                        act, mma, epi, tc, p_consumed,
                    hostVars, bwdVars, drvVars >>

\* ----------------------------------------------------------- MMA partition
\* tlx.async_dot(a, b, d, use_acc, mBarriers)
async_dot(a, b, d, use_acc, mBarriers) ==
    [op |-> "dot", a |-> a, b |-> b, d |-> d, use_acc |-> use_acc,
     mBarriers |-> mBarriers]

\* tlx.tcgen05_commit(barrier): arrives once all earlier operations are done
tcgen05_commit(barrier) ==
    [op |-> "commit", a |-> << >>, b |-> << >>, d |-> << >>, use_acc |-> FALSE,
     mBarriers |-> << barrier >>]

MmaBufIdx_q == _get_bufidx_phase(mma.accum_cnt_q, cfg.NUM_BUFFERS_Q)[1]
MmaPhase_q == _get_bufidx_phase(mma.accum_cnt_q, cfg.NUM_BUFFERS_Q)[2]
MmaBufIdx_o_outer == _get_bufidx_phase(mma.accum_cnt_outer, cfg.NUM_BUFFERS_O)[1]
MmaPhase_o_outer == _get_bufidx_phase(mma.accum_cnt_outer, cfg.NUM_BUFFERS_O)[2]

\* the wait left out: p_i . v is issued without waiting for the activation
MmaConsumerWaitP_NoWait(i, accum_cnt) == TRUE

\* consumer wait of the MMA partition for p_i, on the barrier shared with
\* qk_i: barrier_wait(producer_qk_i[bufIdx], phase)
MmaConsumerWaitP(i, accum_cnt) ==
    LET p == _get_bufidx_phase(accum_cnt, cfg.NUM_BUFFERS_QK)
    IN  BarrierPassed(producer_qk(i), p[1], p[2])

\* the acquire not predicated: performed at every place it is written
MmaAcquireO1Pred_Always(first) == TRUE

\* the predicate of the producer acquire for o1: barrier_wait(.., first)
MmaAcquireO1Pred(first) == first

\* k released by the first of the two matmuls that read it
Q0K_mBarriers_ReleaseK(bufIdx_k, bufIdx_qk) ==
    << << "consumer_release_kv", bufIdx_k >>,
       << "producer_commit_qk0", bufIdx_qk >> >>

\* mBarriers of q0 . k: the commit of qk0
Q0K_mBarriers(bufIdx_k, bufIdx_qk) ==
    << << "producer_commit_qk0", bufIdx_qk >> >>

\* mBarriers of q1 . k: the release of k and the commit of qk1
Q1K_mBarriers(bufIdx_k, bufIdx_qk) ==
    << << "consumer_release_kv", bufIdx_k >>,
       << "producer_commit_qk1", bufIdx_qk >> >>

\* the counter advanced by one slot per step instead of two
MmaAdvanceKV_One(accum_cnt_kv) == accum_cnt_kv + 1

\* accum_cnt_kv += 2: one K and one V slot per inner step
MmaAdvanceKV(accum_cnt_kv) == accum_cnt_kv + 2

MmaSkip ==
    /\ mma.pc = "tile"
    /\ mma.idx < tiles_per_sm
    /\ ~Processed(Tile(mma.idx))
    /\ mma' = [mma EXCEPT !.idx = @ + 1]
    /\ UNCHANGED << cfg, tiles, bar, q_buf, kv_buf, qk_buf, o_buf, o_smem, Out,
                    act, load, epi, tc, tma, p_consumed,
                    hostVars, bwdVars, drvVars >>

\* prologue: accum_cnt_qk1 = accum_cnt_qk; consumer wait for q0
MmaWaitQ0 ==
    /\ mma.pc = "tile"
    /\ mma.idx < tiles_per_sm
    /\ Processed(Tile(mma.idx))
    /\ BarrierPassed("consumer_q0", MmaBufIdx_q, MmaPhase_q)
    /\ mma' = [mma EXCEPT !.pc = "k", !.accum_cnt_qk1 = mma.accum_cnt_qk]
    /\ UNCHANGED << cfg, tiles, bar, q_buf, kv_buf, qk_buf, o_buf, o_smem, Out,
                    act, load, epi, tc, tma, p_consumed,
                    hostVars, bwdVars, drvVars >>

\* prologue: consumer wait for k; q0 . k -> qk0
MmaQ0K_pro ==
    LET k == _get_bufidx_phase(mma.accum_cnt_kv, cfg.NUM_BUFFERS_KV)
        bufIdx_qk == _get_bufidx_phase(mma.accum_cnt_qk, cfg.NUM_BUFFERS_QK)[1]
    IN  /\ mma.pc = "k"
        /\ BarrierPassed("consumer_kv", k[1], k[2])
        /\ tc' = Append(tc, async_dot(<< "q", 0, MmaBufIdx_q >>, << "kv", 0, k[1] >>,
                                      << "qk", 0, bufIdx_qk >>, FALSE,
                                      Q0K_mBarriers(k[1], bufIdx_qk)))
        /\ mma' = [mma EXCEPT !.pc = "q1"]
        /\ UNCHANGED << cfg, tiles, bar, q_buf, kv_buf, qk_buf, o_buf, o_smem, Out,
                        act, load, epi, tma, p_consumed,
                    hostVars, bwdVars, drvVars >>

\* prologue: consumer wait for q1; q1 . k -> qk1, releasing k
MmaQ1K_pro ==
    LET k == _get_bufidx_phase(mma.accum_cnt_kv, cfg.NUM_BUFFERS_KV)
        bufIdx_qk == _get_bufidx_phase(mma.accum_cnt_qk, cfg.NUM_BUFFERS_QK)[1]
    IN  /\ mma.pc = "q1"
        /\ BarrierPassed("consumer_q1", MmaBufIdx_q, MmaPhase_q)
        /\ tc' = Append(tc, async_dot(<< "q", 1, MmaBufIdx_q >>, << "kv", 0, k[1] >>,
                                      << "qk", 1, bufIdx_qk >>, FALSE,
                                      Q1K_mBarriers(k[1], bufIdx_qk)))
        /\ mma' = [mma EXCEPT !.pc = "v"]
        /\ UNCHANGED << cfg, tiles, bar, q_buf, kv_buf, qk_buf, o_buf, o_smem, Out,
                        act, load, epi, tma, p_consumed,
                    hostVars, bwdVars, drvVars >>

\* prologue: consumer wait for v
MmaWaitV_pro ==
    LET v == _get_bufidx_phase(mma.accum_cnt_kv + 1, cfg.NUM_BUFFERS_KV)
    IN  /\ mma.pc = "v"
        /\ BarrierPassed("consumer_kv", v[1], v[2])
        /\ mma' = [mma EXCEPT !.pc = "o0"]
        /\ UNCHANGED << cfg, tiles, bar, q_buf, kv_buf, qk_buf, o_buf, o_smem, Out,
                        act, load, epi, tc, tma, p_consumed,
                    hostVars, bwdVars, drvVars >>

\* prologue: producer acquire for o0 (producer_o0 at phase_o_outer ^ 1)
MmaAcquireO0 ==
    /\ mma.pc = "o0"
    /\ BarrierPassed("producer_o0", MmaBufIdx_o_outer, Flip(MmaPhase_o_outer))
    /\ mma' = [mma EXCEPT !.pc = "p0", !.acq_o0 = @ + 1]
    /\ UNCHANGED << cfg, tiles, bar, q_buf, kv_buf, qk_buf, o_buf, o_smem, Out,
                    act, load, epi, tc, tma, p_consumed,
                    hostVars, bwdVars, drvVars >>

\* the test of `for it in range(BLOCK_N, hi, BLOCK_N)` after a p0 . v; when
\* the loop is over, the two commits that release q0 and q1 follow at once
MmaLoopTest(m, issued) ==
    IF m.it < Tile(m.idx).klen
    THEN /\ mma' = [m EXCEPT !.pc = "lk"]
         /\ tc' = issued
    ELSE /\ mma' = [m EXCEPT !.pc = IF MmaAcquireO1Pred(m.first)
                                    THEN "eo1" ELSE "ep1"]
         /\ tc' = issued
                  \o << tcgen05_commit(<< "consumer_release_q0", MmaBufIdx_q >>),
                        tcgen05_commit(<< "consumer_release_q1", MmaBufIdx_q >>) >>

\* prologue: consumer wait for p0 (producer_qk0, shared with qk0);
\* p0 . v -> o0 with use_acc=False; first = True; counters advance
MmaP0V_pro ==
    LET p == _get_bufidx_phase(mma.accum_cnt_qk, cfg.NUM_BUFFERS_QK)
        bufIdx_v == _get_bufidx_phase(mma.accum_cnt_kv + 1, cfg.NUM_BUFFERS_KV)[1]
        bufIdx_o == _get_bufidx_phase(mma.accum_cnt_o, cfg.NUM_BUFFERS_O)[1]
    IN  /\ mma.pc = "p0"
        /\ MmaConsumerWaitP(0, mma.accum_cnt_qk)
        /\ MmaLoopTest(
              [mma EXCEPT !.accum_cnt_o1 = mma.accum_cnt_o, !.first = TRUE,
                          !.v_view = bufIdx_v, !.it = BLOCK_N,
                          !.accum_cnt_kv = MmaAdvanceKV(@), !.accum_cnt_qk = @ + 1,
                          !.accum_cnt_o = @ + 1],
              Append(tc, async_dot(<< "qk", 0, p[1] >>, << "kv", 0, bufIdx_v >>,
                                   << "o", 0, bufIdx_o >>, FALSE,
                                   << << "producer_commit_o0", bufIdx_o >> >>)))
        /\ UNCHANGED << cfg, tiles, bar, q_buf, kv_buf, qk_buf, o_buf, o_smem, Out,
                        act, load, epi, tma, p_consumed,
                    hostVars, bwdVars, drvVars >>

\* loop: consumer wait for k; q0 . k -> qk0; the producer acquire for o1
\* that follows is predicated on `first`
MmaQ0K_loop ==
    LET k == _get_bufidx_phase(mma.accum_cnt_kv, cfg.NUM_BUFFERS_KV)
        bufIdx_qk == _get_bufidx_phase(mma.accum_cnt_qk, cfg.NUM_BUFFERS_QK)[1]
    IN  /\ mma.pc = "lk"
        /\ BarrierPassed("consumer_kv", k[1], k[2])
        /\ tc' = Append(tc, async_dot(<< "q", 0, MmaBufIdx_q >>, << "kv", 0, k[1] >>,
                                      << "qk", 0, bufIdx_qk >>, FALSE,
                                      Q0K_mBarriers(k[1], bufIdx_qk)))
        /\ mma' = [mma EXCEPT !.pc = IF MmaAcquireO1Pred(mma.first)
                                      THEN "lo1" ELSE "lp1"]
        /\ UNCHANGED << cfg, tiles, bar, q_buf, kv_buf, qk_buf, o_buf, o_smem, Out,
                        act, load, epi, tma, p_consumed,
                    hostVars, bwdVars, drvVars >>

\* loop, first iteration: producer acquire for o1
MmaAcquireO1_loop ==
    /\ mma.pc = "lo1"
    /\ BarrierPassed("producer_o1", MmaBufIdx_o_outer, Flip(MmaPhase_o_outer))
    /\ mma' = [mma EXCEPT !.pc = "lp1", !.acq_o1 = @ + 1]
    /\ UNCHANGED << cfg, tiles, bar, q_buf, kv_buf, qk_buf, o_buf, o_smem, Out,
                    act, load, epi, tc, tma, p_consumed,
                    hostVars, bwdVars, drvVars >>

\* p1 . v of the loop always accumulating
LoopP1V_Accumulates ==
    LET bufIdx_qk1 == _get_bufidx_phase(mma.accum_cnt_qk1, cfg.NUM_BUFFERS_QK)[1]
        bufIdx_o1 == _get_bufidx_phase(mma.accum_cnt_o1, cfg.NUM_BUFFERS_O)[1]
        bufIdx_v == _get_bufidx_phase(mma.accum_cnt_kv - 1, cfg.NUM_BUFFERS_KV)[1]
    IN  async_dot(<< "qk", 1, bufIdx_qk1 >>, << "kv", 0, mma.v_view >>,
                  << "o", 1, bufIdx_o1 >>, TRUE,
                  << << "producer_commit_o1", bufIdx_o1 >>,
                     << "consumer_release_kv", bufIdx_v >> >>)

\* loop: p1 . v -> o1 of the previous step with use_acc = not first,
\* releasing that v
LoopP1V ==
    LET bufIdx_qk1 == _get_bufidx_phase(mma.accum_cnt_qk1, cfg.NUM_BUFFERS_QK)[1]
        bufIdx_o1 == _get_bufidx_phase(mma.accum_cnt_o1, cfg.NUM_BUFFERS_O)[1]
        bufIdx_v == _get_bufidx_phase(mma.accum_cnt_kv - 1, cfg.NUM_BUFFERS_KV)[1]
    IN  async_dot(<< "qk", 1, bufIdx_qk1 >>, << "kv", 0, mma.v_view >>,
                  << "o", 1, bufIdx_o1 >>, ~mma.first,
                  << << "producer_commit_o1", bufIdx_o1 >>,
                     << "consumer_release_kv", bufIdx_v >> >>)

\* loop: q1 . k -> qk1 of this step, releasing k
LoopQ1K ==
    LET bufIdx_k == _get_bufidx_phase(mma.accum_cnt_kv, cfg.NUM_BUFFERS_KV)[1]
        bufIdx_qk1_next ==
            _get_bufidx_phase(mma.accum_cnt_qk1 + 1, cfg.NUM_BUFFERS_QK)[1]
    IN  async_dot(<< "q", 1, MmaBufIdx_q >>, << "kv", 0, bufIdx_k >>,
                  << "qk", 1, bufIdx_qk1_next >>, FALSE,
                  Q1K_mBarriers(bufIdx_k, bufIdx_qk1_next))

\* q1 . k of this step issued before p1 . v of the previous step
LoopIssue_Q1KFirst == << LoopQ1K, LoopP1V >>

\* the order in which the loop body issues the two matmuls on half 1
LoopIssue == << LoopP1V, LoopQ1K >>

\* loop: consumer wait for p1 of the previous step, then the two matmuls
MmaP1V_Q1K_loop ==
    /\ mma.pc = "lp1"
    /\ MmaConsumerWaitP(1, mma.accum_cnt_qk1)
    /\ tc' = tc \o LoopIssue
    /\ mma' = [mma EXCEPT !.pc = "lv"]
    /\ UNCHANGED << cfg, tiles, bar, q_buf, kv_buf, qk_buf, o_buf, o_smem, Out,
                    act, load, epi, tma, p_consumed,
                    hostVars, bwdVars, drvVars >>

\* loop: consumer wait for v
MmaWaitV_loop ==
    LET v == _get_bufidx_phase(mma.accum_cnt_kv + 1, cfg.NUM_BUFFERS_KV)
    IN  /\ mma.pc = "lv"
        /\ BarrierPassed("consumer_kv", v[1], v[2])
        /\ mma' = [mma EXCEPT !.pc = "lp0"]
        /\ UNCHANGED << cfg, tiles, bar, q_buf, kv_buf, qk_buf, o_buf, o_smem, Out,
                        act, load, epi, tc, tma, p_consumed,
                    hostVars, bwdVars, drvVars >>

\* loop: consumer wait for p0; p0 . v -> o0 with use_acc=True;
\* first = False; counters advance
MmaP0V_loop ==
    LET qk == _get_bufidx_phase(mma.accum_cnt_qk, cfg.NUM_BUFFERS_QK)
        bufIdx_v == _get_bufidx_phase(mma.accum_cnt_kv + 1, cfg.NUM_BUFFERS_KV)[1]
        bufIdx_o == _get_bufidx_phase(mma.accum_cnt_o, cfg.NUM_BUFFERS_O)[1]
    IN  /\ mma.pc = "lp0"
        /\ MmaConsumerWaitP(0, mma.accum_cnt_qk)
        /\ MmaLoopTest(
              [mma EXCEPT !.first = FALSE, !.v_view = bufIdx_v,
                          !.it = @ + BLOCK_N,
                          !.accum_cnt_kv = MmaAdvanceKV(@), !.accum_cnt_qk = @ + 1,
                          !.accum_cnt_qk1 = @ + 1, !.accum_cnt_o = @ + 1,
                          !.accum_cnt_o1 = @ + 1],
              Append(tc, async_dot(<< "qk", 0, qk[1] >>, << "kv", 0, bufIdx_v >>,
                                   << "o", 0, bufIdx_o >>, TRUE,
                                   << << "producer_commit_o0", bufIdx_o >> >>)))
        /\ UNCHANGED << cfg, tiles, bar, q_buf, kv_buf, qk_buf, o_buf, o_smem, Out,
                        act, load, epi, tma, p_consumed,
                    hostVars, bwdVars, drvVars >>

\* epilogue, when the loop body never ran: producer acquire for o1
MmaAcquireO1_epi ==
    /\ mma.pc = "eo1"
    /\ BarrierPassed("producer_o1", MmaBufIdx_o_outer, Flip(MmaPhase_o_outer))
    /\ mma' = [mma EXCEPT !.pc = "ep1", !.acq_o1 = @ + 1]
    /\ UNCHANGED << cfg, tiles, bar, q_buf, kv_buf, qk_buf, o_buf, o_smem, Out,
                    act, load, epi, tc, tma, p_consumed,
                    hostVars, bwdVars, drvVars >>

\* epilogue: consumer wait for p1; the last p1 . v -> o1, releasing v;
\* accum_cnt_q += 1; accum_cnt_outer += 1; tile_idx += num_progs
MmaP1V_epi ==
    LET qk1 == _get_bufidx_phase(mma.accum_cnt_qk1, cfg.NUM_BUFFERS_QK)
        bufIdx_o == _get_bufidx_phase(mma.accum_cnt_o1, cfg.NUM_BUFFERS_O)[1]
        bufIdx_v == _get_bufidx_phase(mma.accum_cnt_kv - 1, cfg.NUM_BUFFERS_KV)[1]
    IN  /\ mma.pc = "ep1"
        /\ MmaConsumerWaitP(1, mma.accum_cnt_qk1)
        /\ tc' = Append(tc,
                   async_dot(<< "qk", 1, qk1[1] >>, << "kv", 0, mma.v_view >>,
                             << "o", 1, bufIdx_o >>, ~mma.first,
                             << << "producer_commit_o1", bufIdx_o >>,
                                << "consumer_release_kv", bufIdx_v >> >>))
        /\ mma' = [mma EXCEPT !.pc = "tile", !.it = 0,
                              !.accum_cnt_qk1 = @ + 1, !.accum_cnt_q = @ + 1,
                              !.accum_cnt_outer = @ + 1, !.idx = @ + 1]
        /\ UNCHANGED << cfg, tiles, bar, q_buf, kv_buf, qk_buf, o_buf, o_smem, Out,
                        act, load, epi, tma, p_consumed,
                    hostVars, bwdVars, drvVars >>

\* ------------------------------------------------------------------- Next
Next ==
    \/ \E i \in 0 .. 1 : ActSkip(i)
    \/ \E i \in 0 .. 1 : ActWaitQK(i)
    \/ \E i \in 0 .. 1 : ActPingPongWait(i)
    \/ \E i \in 0 .. 1 : ActStoreP(i)
    \/ \E i \in 0 .. 1 : ActEpiLoad(i)
    \/ \E i \in 0 .. 1 : ActEpiStore(i)
    \/ MmaSkip
    \/ MmaWaitQ0
    \/ MmaQ0K_pro
    \/ MmaQ1K_pro
    \/ MmaWaitV_pro
    \/ MmaAcquireO0
    \/ MmaP0V_pro
    \/ MmaQ0K_loop
    \/ MmaAcquireO1_loop
    \/ MmaP1V_Q1K_loop
    \/ MmaWaitV_loop
    \/ MmaP0V_loop
    \/ MmaAcquireO1_epi
    \/ MmaP1V_epi
    \/ LoadSkip
    \/ \E i \in 0 .. 1 : LoadQ(i)
    \/ LoadK
    \/ LoadV
    \/ EpiSkip
    \/ EpiStore
    \/ TmaComplete
    \/ TcComplete

Spec == Init /\ [][Next]_vars

\* The kernel instantiated with one buffer on every channel, next to a
\* launched configuration; tiles of one or two inner steps.
SingleBuffered ==
    { [ NUM_BUFFERS_Q  |-> 1, NUM_BUFFERS_KV |-> 1,
        NUM_BUFFERS_QK |-> 1, NUM_BUFFERS_O  |-> 1,
        PINGPONG |-> pp ] : pp \in BOOLEAN }

ShortTileChoices == { t \in TileChoices : t.klen <= 2 * BLOCK_N }

BufferInit ==
    InitWith(SingleBuffered \cup { c \in get_cuda_autotune_config : ~c.PINGPONG },
             ShortTileChoices)

BufferSpec == BufferInit /\ [][Next]_vars

\* every partition has left its tile loop and nothing is in flight
AllDone ==
    /\ \A i \in 0 .. 1 : act[i].pc = "tile" /\ act[i].idx = tiles_per_sm
    /\ mma.pc = "tile" /\ mma.idx = tiles_per_sm
    /\ load.pc = "tile" /\ load.idx = tiles_per_sm
    /\ epi.idx = tiles_per_sm
    /\ tc = << >>
    /\ tma = {}

\* ------------------------------------------- entry point gdpa_forward_tlx
\* triton.cdiv / tl.cdiv
cdiv(x, y) == (x + y - 1) \div y

Min(x, y) == IF x <= y THEN x ELSE y

\* offsets of a packed ragged batch with the given sequence lengths
RECURSIVE OffsetsOf(_)
OffsetsOf(lens) ==
    IF lens = << >> THEN << 0 >>
    ELSE LET pre == OffsetsOf(SubSeq(lens, 1, Len(lens) - 1))
         IN  Append(pre, pre[Len(pre)] + lens[Len(lens)])

\* an optional argument is << >> for None and << v >> for the value v
None == << >>

\* the calls that are followed: ragged query lengths of one or two query
\* tiles, key lengths of one or two rows, a packed query tensor whose row
\* count does or does not match the offsets, head counts, masking arguments,
\* the activation selector (activation_enum_int = activation_string_to_int(..))
ArgChoices ==
    { [ query_offset |-> OffsetsOf(ql),
        key_offset |-> OffsetsOf([z \in 1 .. Len(ql) |-> kl]),
        query_rows |-> OffsetsOf(ql)[Len(ql) + 1] + extra,
        nheads |-> h, key_heads |-> hk,
        max_seq_len_q |-> n * BLOCK_M,
        max_seq_len_kv |-> kl,
        is_causal |-> c, window_size |-> w, NUM_SMS |-> sms,
        activation_enum_int |-> e ] :
        ql \in UNION { [1 .. z -> {1, BLOCK_M + 1}] : z \in 1 .. MaxBatch },
        kl \in 1 .. MaxKeyRows, extra \in 0 .. 1,
        h \in 1 .. MaxHeads, hk \in 1 .. MaxHeads, n \in 1 .. MaxQTiles,
        c \in BOOLEAN, w \in {None, << 0 >>}, sms \in 1 .. MaxSMs,
        e \in 0 .. 2 }

\* BATCH = query_offset.size(0) - 1
BATCH == Len(args.query_offset) - 1

\* total_tiles = n_tile_num * Z * H, with n_tile_num = cdiv(N_CTX, BLOCK_M)
n_tile_num == cdiv(args.max_seq_len_q, BLOCK_M)
total_tiles == n_tile_num * BATCH * args.nheads

\* grid_tma_persistent
grid_tma_persistent == Min(args.NUM_SMS, cdiv(args.max_seq_len_q, BLOCK_M) * BATCH * args.nheads)

\* the (batch, head, query tile) work items of the call
WorkItems ==
    { << z, h, m >> : z \in 0 .. BATCH - 1, h \in 0 .. args.nheads - 1,
                      m \in 0 .. n_tile_num - 1 }

\* torch.empty: memory that holds whatever it held
Uninit == [kind |-> "uninit"]

\* the head-count assertion fails: the call ends in AssertionError
gdpa_forward_tlx_assert ==
    /\ fwd.pc = "entry"
    /\ args.nheads % args.key_heads # 0
    /\ fwd' = [fwd EXCEPT !.pc = "AssertionError"]
    /\ UNCHANGED << kernelVars, bwdVars, drvVars, args, progs, visits, o >>

\* the remainder of the division left undistributed
tiles_per_sm_of_Floor(prog_id, num_progs) == total_tiles \div num_progs

\* tiles_per_sm of program prog_id out of num_progs
tiles_per_sm_of(prog_id, num_progs) ==
    (total_tiles \div num_progs)
    + (IF prog_id < total_tiles % num_progs THEN 1 ELSE 0)

\* otherwise: o = torch.empty(..) and the kernel is launched on the grid;
\* every program starts with tile_idx = prog_id
gdpa_forward_tlx_launch ==
    /\ fwd.pc = "entry"
    /\ args.nheads % args.key_heads = 0
    /\ o' = [w \in WorkItems |-> Uninit]
    /\ progs' = [u \in 0 .. grid_tma_persistent - 1 |->
                    [idx |-> 0, tile_idx |-> u,
                     tiles_per_sm |-> tiles_per_sm_of(u, grid_tma_persistent)]]
    /\ fwd' = [fwd EXCEPT !.pc = "kernel", !.grid = grid_tma_persistent]
    /\ UNCHANGED << kernelVars, bwdVars, drvVars, args, visits >>

\* _compute_qlen and the decoding that follows it in every partition
_compute_qlen(tile_idx) ==
    LET off_hz == tile_idx \div n_tile_num
        off_z == off_hz \div args.nheads
        begin_q == args.query_offset[off_z + 1]
        end_q == args.query_offset[off_z + 2]
        begin_k == args.key_offset[off_z + 1]
        end_k == args.key_offset[off_z + 2]
    IN  [ off_z |-> off_z, off_h |-> off_hz % args.nheads,
          start_m |-> tile_idx % n_tile_num,
          begin_q |-> begin_q, end_q |-> end_q, begin_k |-> begin_k,
          qlen |-> Min(end_q - begin_q, args.max_seq_len_q),
          klen |-> end_k - begin_k ]

\* what a processed tile leaves in the output: rows [row_lo, row_hi) of the
\* packed tensor, each the sum over key rows lo .. hi - 1 of its sequence
\* (the inner loops run `for start_n in range(lo, hi, BLOCK_N)` with
\* lo, hi = 0, klen; STAGE and WINDOW_SIZE are not read by the kernel) of
\* p . v, p the score transformed by the activation partition
\* (p = x * tanh((c1 * x * x + c0) * x) + x; activation_enum_int is not
\* read by the kernel)
\* a raw score q . k^T of the tile
Score == [kind |-> "qk"]

\* k_desc, v_desc: shape = [N_CTX_KV * Z, HEAD_DIM * H // G]; rows at or
\* beyond the shape are not read
KeyDescRows == args.max_seq_len_kv * BATCH

\* the rows of K and V that enter a processed tile: for every start_n of
\* range(0, klen, BLOCK_N) the BLOCK_N rows from begin_k + start_n on that
\* the descriptor holds; the activation partitions apply no key mask
KeyRowsLoaded(t) ==
    { r \in 0 .. KeyDescRows - 1 :
        \E n \in 0 .. cdiv(t.klen, BLOCK_N) - 1 :
            r \in t.begin_k + n * BLOCK_N .. t.begin_k + (n + 1) * BLOCK_N - 1 }

\* the store descriptor left unclipped: all BLOCK_M rows of the tile written
TileOutput_Unclipped(t) ==
    [ kind |-> "o",
      p |-> Activation(Score),
      k_rows |-> KeyRowsLoaded(t),
      row_lo |-> t.begin_q + t.start_m * BLOCK_M,
      row_hi |-> t.begin_q + (t.start_m + 1) * BLOCK_M,
      begin_q |-> t.begin_q,
      lo |-> 0, hi |-> t.klen ]

TileOutput(t) ==
    [ kind |-> "o",
      p |-> Activation(Score),
      k_rows |-> KeyRowsLoaded(t),
      row_lo |-> t.begin_q + t.start_m * BLOCK_M,
      row_hi |-> Min(t.end_q, t.begin_q + (t.start_m + 1) * BLOCK_M),
      begin_q |-> t.begin_q,
      lo |-> 0, hi |-> t.klen ]

\* one iteration of the persistent loop of program u: decode the tile,
\* process it if its first row is inside the sequence, tile_idx += num_progs
ProgTile(u) ==
    LET pr == progs[u]
        t == _compute_qlen(pr.tile_idx)
    IN  /\ fwd.pc = "kernel"
        /\ pr.idx < pr.tiles_per_sm
        /\ visits' = visits \cup
              { [prog_id |-> u, idx |-> pr.idx, tile_idx |-> pr.tile_idx,
                 item |-> << t.off_z, t.off_h, t.start_m >>] }
        /\ o' = IF Processed(t)
                THEN [o EXCEPT ![<< t.off_z, t.off_h, t.start_m >>] = TileOutput(t)]
                ELSE o
        /\ progs' = [progs EXCEPT ![u].idx = @ + 1,
                                  ![u].tile_idx = @ + fwd.grid]
        /\ UNCHANGED << kernelVars, bwdVars, drvVars, args, fwd >>

\* every program has left its loop: the call returns o
gdpa_forward_tlx_return ==
    /\ fwd.pc = "kernel"
    /\ \A u \in DOMAIN progs : progs[u].idx = progs[u].tiles_per_sm
    /\ fwd' = [fwd EXCEPT !.pc = "returned"]
    /\ UNCHANGED << kernelVars, bwdVars, drvVars, args, progs, visits, o >>

\* a call of gdpa_forward_tlx; the state of the unit is not followed
HostInit ==
    /\ args \in ArgChoices
    /\ fwd = [pc |-> "entry", grid |-> 0]
    /\ progs = << >>
    /\ visits = {}
    /\ o = << >>
    /\ cfg = CHOOSE c \in get_cuda_autotune_config : ~c.PINGPONG
    /\ tiles = << >>
    /\ bar = alloc_barriers(cfg)
    /\ q_buf = << >> /\ kv_buf = << >> /\ qk_buf = << >> /\ o_buf = << >>
    /\ o_smem = << >> /\ Out = << >> /\ act = << >> /\ mma = << >>
    /\ load = << >> /\ epi = << >> /\ tc = << >> /\ tma = {}
    /\ p_consumed = << >>
    /\ NoBackward
    /\ NoDriver

HostNext ==
    \/ gdpa_forward_tlx_assert
    \/ gdpa_forward_tlx_launch
    \/ \E u \in DOMAIN progs : ProgTile(u)
    \/ gdpa_forward_tlx_return

HostSpec == HostInit /\ [][HostNext]_vars

\* ============================================================== properties
\* what the buffers are meant to hold
StepStarts(klen) == { n * BLOCK_N : n \in { m \in 0 .. (klen \div BLOCK_N) : m * BLOCK_N < klen } }
NSteps(klen) == (klen + BLOCK_N - 1) \div BLOCK_N
ProcessedIdx == { t \in 0 .. tiles_per_sm - 1 : Processed(Tile(t)) }
ExpQK(i, t, s) == [kind |-> "qk", q |-> QVal(i, t), k |-> KVal(t, s)]
ExpP(i, t, s) == [kind |-> "p", of |-> ExpQK(i, t, s)]
ExpContribution(i, t, s) == [p |-> ExpP(i, t, s), v |-> VVal(t, s)]
ExpO(i, t) == { ExpContribution(i, t, s) : s \in StepStarts(Tile(t).klen) }

\* number of processed tiles, and of their inner steps, before iteration idx
RECURSIVE TilesBefore(_)
TilesBefore(idx) ==
    IF idx = 0 THEN 0
    ELSE TilesBefore(idx - 1) + (IF Processed(Tile(idx - 1)) THEN 1 ELSE 0)

RECURSIVE StepsBefore(_)
StepsBefore(idx) ==
    IF idx = 0 THEN 0
    ELSE StepsBefore(idx - 1)
         + (IF Processed(Tile(idx - 1)) THEN NSteps(Tile(idx - 1).klen) ELSE 0)

IsPV(e) == e.op = "dot" /\ e.d[1] = "o"

\* C1: under fair scheduling and with every issued load and matmul
\* completing, every barrier wait is eventually satisfied and all five
\* partitions run to the end of their tile loop.  Every step of the model
\* makes progress and runs are finite, so this is: a state in which nothing
\* can happen is a state in which everything is done.
C1_AllPartitionsFinish == AllDone \/ ENABLED Next

\* C2: while activation partition i holds the scores it read for a step, the
\* slot held the scores of exactly that step of that tile (the result of
\* the completed Q_i . K matmul), and the commit barrier has completed one
\* phase per step so far.
C2_ActReadsCurrentScores ==
    \A i \in 0 .. 1 :
        act[i].pc \in {"pp", "act"} =>
            /\ act[i].x = ExpQK(i, act[i].idx, act[i].start_n)
            /\ bar[producer_commit_qk(i)][0] = act[i].accum_cnt + 1

C2_Witness ==
    /\ Processed(Tile(0))
    /\ act[1].pc = "pp"
    /\ act[1].idx = 1
    /\ act[1].start_n = BLOCK_N

\* C3: every P_i . V matmul that has been issued and not completed finds in
\* its p operand the activated tile of a step, paired with the V tile of
\* the same step, the activation partition having arrived on producer_qk_i
\* for that step; and the accumulators hold only such contributions (never
\* raw scores).
C3_PVConsumesActivated ==
    /\ \A n \in 1 .. Len(tc) :
          IsPV(tc[n]) =>
              \E t \in ProcessedIdx : \E s \in StepStarts(Tile(t).klen) :
                  /\ ReadRef(tc[n].a) = ExpP(tc[n].a[2], t, s)
                  /\ ReadRef(tc[n].b) = VVal(t, s)
                  /\ bar[producer_qk(tc[n].a[2])][0]
                        >= StepsBefore(t) + (s \div BLOCK_N) + 1
    /\ \A i \in 0 .. 1 :
          o_buf[i][0] \subseteq UNION { ExpO(i, t) : t \in ProcessedIdx }

C3_Witness ==
    \E n \in 1 .. Len(tc) :
        /\ IsPV(tc[n])
        /\ tc[n].a[2] = 1
        /\ ReadRef(tc[n].a) = ExpP(1, 1, BLOCK_N)

\* C4: per qk/p slot the accesses strictly alternate: a Q . K matmul writes
\* scores only into a slot that is empty or whose activated tile has been
\* read by its P . V matmul, the activation overwrites scores with their
\* activated tile, and a P . V matmul reads an activated tile.
LegalReuse(i) ==
    LET old == qk_buf[i][0]
        new == qk_buf[i][0]'
    IN  /\ new # old =>
              \/ /\ new.kind = "qk"
                 /\ old.kind = "none" \/ (old.kind = "p" /\ p_consumed[i][0])
              \/ /\ new.kind = "p"
                 /\ old.kind = "qk"
                 /\ new = [kind |-> "p", of |-> old]
        /\ (p_consumed[i][0]' /\ ~p_consumed[i][0]) => (old.kind = "p" /\ new = old)
        /\ p_consumed[i][0] => (p_consumed[i][0]' \/ new.kind = "qk")

C4_QKPAlternate == [][\A i \in 0 .. 1 : LegalReuse(i)]_vars

C4_Witness ==
    /\ Processed(Tile(0))
    /\ qk_buf[0][0] = ExpQK(0, 1, BLOCK_N)
    /\ qk_buf[1][0] = ExpP(1, 1, 0)
    /\ p_consumed[1][0]

\* C5: what an activation partition reads from its output accumulator at
\* the end of a tile is the sum over all key/value blocks of the tile.
C5_ActReadsCompleteAccumulator ==
    \A i \in 0 .. 1 :
        act[i].pc = "epi" => act[i].o = ExpO(i, act[i].idx)

\* C6: the bulk store of a processed tile reads from each staging buffer
\* the output the activation partition wrote for that same tile.
C6_StoreReadsTileOutput ==
    \A t \in 0 .. tiles_per_sm - 1 :
        Out[t] # << >> =>
            \A i \in 1 .. 2 : Out[t][i].kind = "o" /\ Out[t][i].t = t

\* C7: an overwriting P . V matmul into o_i is issued only when the MMA
\* partition has acquired o_i for the tile and the activation partition has
\* arrived on producer_o_i for every earlier tile; the acquire is done once
\* per processed tile and accumulator.
OverwritingPVIssued(i) ==
    \E n \in Len(tc) + 1 .. Len(tc') :
        /\ IsPV(tc'[n])
        /\ tc'[n].d[2] = i
        /\ ~tc'[n].use_acc

MmaAcquired(i) == IF i = 0 THEN mma.acq_o0 ELSE mma.acq_o1

C7_AcquireOncePerTile ==
    /\ [][ \A i \in 0 .. 1 :
              OverwritingPVIssued(i) =>
                  /\ MmaAcquired(i) = mma.accum_cnt_outer + 1
                  /\ bar[producer_o(i)][0] >= mma.accum_cnt_outer ]_vars
    /\ [](\A i \in 0 .. 1 :
              /\ MmaAcquired(i) \in {mma.accum_cnt_outer, mma.accum_cnt_outer + 1}
              /\ mma.pc = "tile" => MmaAcquired(i) = mma.accum_cnt_outer)

C7_Witness ==
    /\ mma.accum_cnt_outer = 1
    /\ mma.pc = "lv"
    /\ ~mma.first
    /\ mma.acq_o0 = 2
    /\ mma.acq_o1 = 2
    /\ \E n \in 1 .. Len(tc) : IsPV(tc[n]) /\ tc[n].d[2] = 1 /\ tc[n].use_acc

\* C8: while a matmul that reads a Q, K or V slot is issued and not
\* completed, the slot is loaded and not released, and no transfer into it
\* is in flight.
KVInFlight(j) == Cardinality({ l \in tma : l.dst = << "kv", 0, j >> })
QInFlight(i) == Cardinality({ l \in tma : l.dst = << "q", i, 0 >> })
KVReleased(j) ==
    bar["consumer_release_kv"][j] - alloc_barriers(cfg)["consumer_release_kv"][j]

SlotHeld(r) ==
    CASE r[1] = "kv" -> /\ KVInFlight(r[3]) = 0
                        /\ bar["consumer_kv"][r[3]] - KVReleased(r[3]) = 1
                        /\ kv_buf[r[3]].kind \in {"K", "V"}
      [] r[1] = "q" -> /\ QInFlight(r[2]) = 0
                       /\ bar[consumer_q(r[2])][r[3]]
                             - bar[consumer_release_q(r[2])][r[3]] = 1
                       /\ q_buf[r[2]][r[3]].kind = "Q"
      [] OTHER -> TRUE

C8_OperandsHeldUntilRead ==
    \A n \in 1 .. Len(tc) :
        tc[n].op = "dot" => SlotHeld(tc[n].a) /\ SlotHeld(tc[n].b)

C8_Witness ==
    /\ \E n \in 1 .. Len(tc) : tc[n].op = "dot" /\ tc[n].b[1] = "kv"
    /\ \E l \in tma : l.dst[1] = "kv" /\ KVReleased(l.dst[3]) >= 1

\* C9: per K/V slot, and per Q slot of each half, at most one tile is
\* loaded (or being loaded) and not yet released; so at most NUM_BUFFERS_KV
\* K/V tiles and NUM_BUFFERS_Q Q half-tiles are outstanding.
KVOutstanding(j) == bar["consumer_kv"][j] + KVInFlight(j) - KVReleased(j)
QOutstanding(i) ==
    bar[consumer_q(i)][0] + QInFlight(i) - bar[consumer_release_q(i)][0]

RECURSIVE KVOutstandingUpTo(_)
KVOutstandingUpTo(j) ==
    IF j < 0 THEN 0 ELSE KVOutstanding(j) + KVOutstandingUpTo(j - 1)

C9_BoundedOutstanding ==
    /\ \A j \in 0 .. cfg.NUM_BUFFERS_KV - 1 : KVOutstanding(j) \in 0 .. 1
    /\ KVOutstandingUpTo(cfg.NUM_BUFFERS_KV - 1) <= cfg.NUM_BUFFERS_KV
    /\ \A i \in 0 .. 1 : QOutstanding(i) \in 0 .. cfg.NUM_BUFFERS_Q

C9_Witness ==
    /\ KVOutstandingUpTo(cfg.NUM_BUFFERS_KV - 1) = cfg.NUM_BUFFERS_KV
    /\ load.accum_cnt_kv >= 4
    /\ \A i \in 0 .. 1 : QOutstanding(i) = 1

\* C10: at every point each partition's private counter of a channel gives
\* the slot index and phase of the operation's ordinal number on that
\* channel (processed tiles for Q and the o release, inner steps for qk/p,
\* two per inner step for K/V), so the n-th producer and the n-th consumer
\* operation agree.
SlotPhase(n, N) == << n % N, (n \div N) % 2 >>

InlinePair(accum_cnt, N) == << InlineBufIdx(accum_cnt, N), InlinePhase(accum_cnt, N) >>

MmaInPrologue == mma.pc \in {"tile", "k", "q1", "v", "o0", "p0"}
MmaStep == IF MmaInPrologue THEN 0 ELSE mma.it \div BLOCK_N
MmaStepOrdinal == StepsBefore(mma.idx) + MmaStep
LoadStepOrdinal == StepsBefore(load.idx) + (load.start_n \div BLOCK_N)
ActStepOrdinal(i) == StepsBefore(act[i].idx) + (act[i].start_n \div BLOCK_N)

C10_SameSlotAndPhase ==
    /\ InlinePair(load.accum_count_q, cfg.NUM_BUFFERS_Q)
          = SlotPhase(TilesBefore(load.idx), cfg.NUM_BUFFERS_Q)
    /\ _get_bufidx_phase(mma.accum_cnt_q, cfg.NUM_BUFFERS_Q)
          = SlotPhase(TilesBefore(mma.idx), cfg.NUM_BUFFERS_Q)
    /\ \A d \in 0 .. 1 :
          /\ _get_bufidx_phase(load.accum_cnt_kv + d, cfg.NUM_BUFFERS_KV)
                = SlotPhase(2 * LoadStepOrdinal + d, cfg.NUM_BUFFERS_KV)
          /\ _get_bufidx_phase(mma.accum_cnt_kv + d, cfg.NUM_BUFFERS_KV)
                = SlotPhase(2 * MmaStepOrdinal + d, cfg.NUM_BUFFERS_KV)
    /\ _get_bufidx_phase(mma.accum_cnt_qk, cfg.NUM_BUFFERS_QK)
          = SlotPhase(MmaStepOrdinal, cfg.NUM_BUFFERS_QK)
    /\ _get_bufidx_phase(mma.accum_cnt_qk1, cfg.NUM_BUFFERS_QK)
          = SlotPhase(IF MmaInPrologue THEN StepsBefore(mma.idx)
                      ELSE MmaStepOrdinal - 1, cfg.NUM_BUFFERS_QK)
    /\ _get_bufidx_phase(mma.accum_cnt_outer, cfg.NUM_BUFFERS_O)
          = SlotPhase(TilesBefore(mma.idx), cfg.NUM_BUFFERS_O)
    /\ \A i \in 0 .. 1 :
          /\ InlinePair(act[i].accum_cnt, cfg.NUM_BUFFERS_QK)
                = SlotPhase(ActStepOrdinal(i), cfg.NUM_BUFFERS_QK)
          /\ _get_bufidx_phase(act[i].accum_cnt_outer, cfg.NUM_BUFFERS_O)
                = SlotPhase(TilesBefore(act[i].idx), cfg.NUM_BUFFERS_O)

C10_Witness ==
    /\ ~Processed(Tile(0))
    /\ mma.pc = "ep1"
    /\ mma.accum_cnt_kv = 4
    /\ load.accum_cnt_kv = 4
    /\ act[1].accum_cnt = 1

\* C11: while the kernel runs, program u has gone through the first tile
\* ids of u, u + grid, u + 2 grid, ..., all below total_tiles, no work item
\* has been visited twice; when the call returns every program has visited
\* all such ids (so the first total_tiles mod grid programs one more than
\* the others) and every (batch, head, query tile) has been visited once.
VisitsOf(u) == { v \in visits : v.prog_id = u }
TileIdsOf(u) == { id \in 0 .. total_tiles - 1 : id % fwd.grid = u }

C11_EveryTileOnce ==
    fwd.pc \in {"kernel", "returned"} =>
        /\ fwd.grid >= 1 /\ fwd.grid <= total_tiles
        /\ \A u \in DOMAIN progs :
              /\ \A v \in VisitsOf(u) :
                    /\ v.tile_idx = u + v.idx * fwd.grid
                    /\ v.tile_idx < total_tiles
                    /\ v.item \in WorkItems
              /\ Cardinality(VisitsOf(u)) = progs[u].idx
              /\ fwd.pc = "returned" =>
                    { v.tile_idx : v \in VisitsOf(u) } = TileIdsOf(u)
        /\ \A w \in WorkItems :
              /\ Cardinality({ v \in visits : v.item = w }) <= 1
              /\ fwd.pc = "returned" => \E v \in visits : v.item = w

C11_Witness ==
    /\ fwd.pc = "returned"
    /\ fwd.grid = 3
    /\ total_tiles = 8
    /\ Cardinality(VisitsOf(0)) = 3
    /\ Cardinality(VisitsOf(2)) = 2

\* C12: a partition that stands before a tile whose first row is not below
\* the clamped query length can always step (it waits on nothing), and its
\* step changes nothing but its own tile index: no barrier, no buffer, no
\* pending operation, no counter, no other partition.
BeforeSkippedTile(p) ==
    /\ p.pc = "tile"
    /\ p.idx < tiles_per_sm
    /\ ~(Tile(p.idx).start_m * BLOCK_M < Tile(p.idx).qlen)

OnlyIdxAdvances(p, q) == q = [p EXCEPT !.idx = @ + 1]

SharedUnchanged ==
    UNCHANGED << cfg, tiles, bar, q_buf, kv_buf, qk_buf, o_buf, o_smem, Out,
                 tc, tma, p_consumed >>

C12_SkippedTileFrame ==
    /\ [][ /\ \A i \in 0 .. 1 :
                (BeforeSkippedTile(act[i]) /\ act'[i] # act[i]) =>
                    /\ OnlyIdxAdvances(act[i], act'[i])
                    /\ act'[1 - i] = act[1 - i]
                    /\ SharedUnchanged /\ UNCHANGED << mma, load, epi >>
           /\ (BeforeSkippedTile(mma) /\ mma' # mma) =>
                    /\ OnlyIdxAdvances(mma, mma')
                    /\ SharedUnchanged /\ UNCHANGED << act, load, epi >>
           /\ (BeforeSkippedTile(load) /\ load' # load) =>
                    /\ OnlyIdxAdvances(load, load')
                    /\ SharedUnchanged /\ UNCHANGED << act, mma, epi >>
           /\ (BeforeSkippedTile(epi) /\ epi' # epi) =>
                    /\ OnlyIdxAdvances(epi, epi')
                    /\ SharedUnchanged /\ UNCHANGED << act, mma, load >> ]_vars
    /\ [](/\ \A i \in 0 .. 1 : BeforeSkippedTile(act[i]) => ENABLED ActSkip(i)
          /\ BeforeSkippedTile(mma) => ENABLED MmaSkip
          /\ BeforeSkippedTile(load) => ENABLED LoadSkip
          /\ BeforeSkippedTile(epi) => ENABLED EpiSkip)

C12_Witness ==
    /\ ~Processed(Tile(0))
    /\ Processed(Tile(1))
    /\ \A i \in 0 .. 1 : act[i].idx = 1 /\ act[i].accum_cnt_outer = 0
    /\ mma.idx = 1 /\ mma.pc = "lk" /\ mma.accum_cnt_outer = 0
    /\ load.idx = 1 /\ load.accum_count_q = 0
    /\ epi.idx = 2 /\ epi.accum_cnt_outer = 1

\* C13: of the P . V matmuls of a tile into an accumulator exactly the one
\* of the tile's first key/value step overwrites and all others accumulate,
\* so an accumulator never mixes contributions of two tiles; every Q . K
\* matmul overwrites; where the MMA partition reads its first-iteration
\* flag, the flag says whether a loop iteration of this tile has finished.
MmaReadsFirst == mma.pc \in {"lk", "lo1", "lp1", "lv", "lp0", "eo1", "ep1"}

C13_FirstOverwritesRestAccumulate ==
    /\ \A n \in 1 .. Len(tc) :
          /\ IsPV(tc[n]) =>
                \E t \in ProcessedIdx : \E s \in StepStarts(Tile(t).klen) :
                    /\ ReadRef(tc[n].a) = ExpP(tc[n].d[2], t, s)
                    /\ tc[n].use_acc = (s > 0)
          /\ (tc[n].op = "dot" /\ tc[n].d[1] = "qk") => ~tc[n].use_acc
    /\ \A i \in 0 .. 1 :
          o_buf[i][0] = {} \/ \E t \in ProcessedIdx : o_buf[i][0] \subseteq ExpO(i, t)
    /\ MmaReadsFirst => (mma.first = (mma.it = BLOCK_N))

C13_Witness ==
    /\ Tile(0).klen > 2 * BLOCK_N
    /\ Processed(Tile(0))
    /\ mma.idx = 2
    /\ \E n \in 1 .. Len(tc) :
          /\ IsPV(tc[n])
          /\ ~tc[n].use_acc
          /\ ReadRef(tc[n].a) = ExpP(1, 1, 0)

\* C14: with one buffer on every channel the partitions still run to the
\* end of their tile loops: a state in which nothing can happen is a state
\* in which everything is done (set aside the states in which the MMA
\* partition is stuck in a producer acquire of an accumulator, which arise
\* with any buffer count).
MmaAtAccumulatorAcquire == mma.pc \in {"o0", "lo1", "eo1"}

C14_SingleBufferedFinishes ==
    (cfg \in SingleBuffered /\ ~ENABLED Next) =>
        (AllDone \/ MmaAtAccumulatorAcquire)

\* the output of the kernel as a function of its inputs: for every processed
\* tile the two halves, each the sum over the tile's steps of
\* activation(q_i . k^T) . v
OutputOf(t) ==
    IF Processed(Tile(t))
    THEN << [kind |-> "o", t |-> t, o |-> ExpO(0, t)],
            [kind |-> "o", t |-> t, o |-> ExpO(1, t)] >>
    ELSE << >>

ExpectedOut == [t \in 0 .. MaxTiles - 1 |-> OutputOf(t)]

\* C15: the rows written by a complete execution are determined by the
\* inputs alone: every complete execution, whatever the interleaving of the
\* partitions and the completion order of the asynchronous operations, has
\* written the same value, OutputOf(t), for every tile t.
C15_OutputDeterminedByInputs == AllDone => Out = ExpectedOut

\* a complete execution on two one-step tiles that has written OutputOf(t)
\* for both of them
C15_Witness ==
    /\ AllDone
    /\ ~cfg.PINGPONG
    /\ \A t \in 0 .. tiles_per_sm - 1 : Tile(t).klen = 1 /\ Processed(Tile(t))
    /\ Out = ExpectedOut

\* activation partition i is inside its tanh-and-store section: past the
\* ping-pong wait and before the ping-pong arrival; act[i].accum_cnt is the
\* number of the step the section belongs to
InSection(i) == cfg.PINGPONG /\ act[i].pc = "act"

ChannelUses ==
    /\ load.accum_count_q = TilesBefore(tiles_per_sm)
    /\ load.accum_cnt_kv = 2 * StepsBefore(tiles_per_sm)
    /\ mma.accum_cnt_q = TilesBefore(tiles_per_sm)
    /\ mma.accum_cnt_kv = 2 * StepsBefore(tiles_per_sm)
    /\ \A i \in 0 .. 1 : act[i].accum_cnt = StepsBefore(tiles_per_sm)
    /\ \A i \in 0 .. 1 : act[i].accum_cnt_outer = TilesBefore(tiles_per_sm)

\* C17: PINGPONG only throttles: a complete execution with PINGPONG enabled
\* has handed the same tiles through every data channel and has written the
\* same output as an execution with PINGPONG disabled, namely every tile and
\* step of the input once and OutputOf(t) for every tile t.
C17_PingPongOnlyThrottles ==
    (AllDone /\ cfg.PINGPONG) => (ChannelUses /\ Out = ExpectedOut)

\* a complete execution with PINGPONG enabled that has written OutputOf(t)
\* for two processed tiles
C17_Witness ==
    /\ AllDone
    /\ cfg.PINGPONG
    /\ ChannelUses
    /\ \A t \in 0 .. tiles_per_sm - 1 : Processed(Tile(t))
    /\ Out = ExpectedOut

\* the use counters of all partitions, and the buffer counts of the channels
Counters ==
    << mma.accum_cnt_q, mma.accum_cnt_kv, mma.accum_cnt_qk, mma.accum_cnt_qk1,
       mma.accum_cnt_o, mma.accum_cnt_o1, mma.accum_cnt_outer,
       load.accum_count_q, load.accum_cnt_kv,
       act[0].accum_cnt, act[0].accum_cnt_outer,
       act[1].accum_cnt, act[1].accum_cnt_outer,
       epi.accum_cnt_outer >>

BufferCounts ==
    { cfg.NUM_BUFFERS_Q, cfg.NUM_BUFFERS_KV, cfg.NUM_BUFFERS_QK, cfg.NUM_BUFFERS_O }

SlotAndPhaseAgree ==
    \A n \in DOMAIN Counters : \A N \in BufferCounts :
        LET c == Counters[n]
        IN  /\ c >= 0
            /\ _get_bufidx_phase(c, N) = << c % N, (c \div N) % 2 >>
            /\ << InlineBufIdx(c, N), InlinePhase(c, N) >>
                   = << c % N, (c \div N) % 2 >>

CountersIncrease ==
    \A n \in DOMAIN Counters : Counters'[n] >= Counters[n]

\* C18: for every value c a counter takes and every buffer count N of the
\* configuration, _get_bufidx_phase and the inline computations of the
\* activation and load partitions give slot c mod N and phase
\* (c div N) mod 2, and no step decreases a counter.
C18_SlotPhaseOfCounter == [][CountersIncrease]_vars /\ []SlotAndPhaseAgree

\* counters past a wrap of their channel: the K/V counter of the load
\* partition in its second round over the three slots, an activation counter
\* at its third use of the single qk slot
C18_Witness ==
    /\ load.accum_cnt_kv = 4
    /\ cfg.NUM_BUFFERS_KV = 3
    /\ _get_bufidx_phase(load.accum_cnt_kv, cfg.NUM_BUFFERS_KV) = << 1, 1 >>
    /\ act[0].accum_cnt = 2
    /\ << InlineBufIdx(act[0].accum_cnt, cfg.NUM_BUFFERS_QK),
          InlinePhase(act[0].accum_cnt, cfg.NUM_BUFFERS_QK) >> = << 0, 0 >>

\* the sum of end[i] - begin[i] over the batch of an offsets array
RECURSIVE SumOfLengths(_, _)
SumOfLengths(off, z) ==
    IF z = 0 THEN 0
    ELSE SumOfLengths(off, z - 1) + (off[z + 1] - off[z])

OffsetsAccountForRows ==
    SumOfLengths(args.query_offset, BATCH) = args.query_rows

\* C19: a call whose query offsets do not account for exactly the rows of
\* the packed query tensor never gets past the entry of gdpa_forward_tlx
\* other than by failing, and no output tensor exists for it.
C19_OffsetMismatchRejected ==
    ~OffsetsAccountForRows =>
        (fwd.pc \in {"entry", "AssertionError"} /\ o = << >>)

\* the output rows that have been written, by work item
Written == { w \in DOMAIN o : o[w].kind = "o" }

\* key row c of the sequence contributes to query row r of the sequence in
\* the tile output out (rows are counted from the start of their sequence)
Contributes(out, r, c) ==
    /\ r + out.begin_q \in out.row_lo .. out.row_hi - 1
    /\ c \in out.lo .. out.hi - 1

Abs(x) == IF x < 0 THEN -x ELSE x

KeyRowsOf(w) ==
    0 .. args.key_offset[w[1] + 2] - args.key_offset[w[1] + 1] - 1

QueryRowsOf(w) == o[w].row_lo - o[w].begin_q .. o[w].row_hi - o[w].begin_q - 1

\* C20: in a forward call with is_causal = True no key row c > r contributes
\* to query row r; with a window_size w no key row with |r - c| > w does;
\* with window_size = None and is_causal = False every key row of the
\* sequence contributes to every written query row.
C20_MaskedRowsContributeZero ==
    \A w \in Written : \A r \in QueryRowsOf(w) : \A c \in KeyRowsOf(w) :
        /\ (args.is_causal /\ c > r) => ~Contributes(o[w], r, c)
        /\ (args.window_size # None /\ Abs(r - c) > args.window_size[1])
               => ~Contributes(o[w], r, c)
        /\ (args.window_size = None /\ ~args.is_causal)
               => Contributes(o[w], r, c)

\* the unmasked part: a written tile of a call without masking, to which
\* both key rows of the sequence contribute
C20_Witness ==
    /\ fwd.pc = "returned"
    /\ args.window_size = None /\ ~args.is_causal
    /\ \E w \in Written :
          /\ KeyRowsOf(w) = 0 .. 1
          /\ \A r \in QueryRowsOf(w) : \A c \in KeyRowsOf(w) :
                Contributes(o[w], r, c)

\* the transform an activation selector stands for: 0 the identity, 1 gelu,
\* 2 the tanh approximation of gelu
SelectedTransform(e, x) ==
    IF e = 0 THEN x
    ELSE IF e = 1 THEN [kind |-> "gelu", of |-> x]
    ELSE Activation(x)

\* C21: the p that enters a written tile is the raw score transformed as
\* the activation selector of the call says: unchanged for the identity,
\* x * tanh(c1 * x^3 + c0 * x) + x for the tanh approximation of gelu.
C21_TransformFollowsSelector ==
    \A w \in Written :
        o[w].p = SelectedTransform(args.activation_enum_int, Score)

\* a returned call with the tanh-gelu selector and a written tile
C21_Witness ==
    /\ fwd.pc = "returned"
    /\ args.activation_enum_int = 2
    /\ \E w \in Written : o[w].p = Activation(Score)

\* ======================================================================
\* Backward kernel gdpa_backward_tlx: one program (one key block of one
\* batch element and head) with its four partitions (activation, reduction,
\* MMA, load) and the asynchronous engines.
\* ======================================================================

\* get_tlx_bwd_autotune_config: BLOCK_M1 = 128, BLOCK_N1 = 128, one buffer
\* per channel
get_tlx_bwd_autotune_config ==
    { [ BLOCK_M1 |-> 128, BLOCK_N1 |-> 128, BLOCK_M2 |-> 128, BLOCK_N2 |-> 128,
        NUM_BUFFERS_KV |-> 1, NUM_BUFFERS_Q |-> 1, NUM_BUFFERS_DO |-> 1,
        NUM_BUFFERS_DS |-> 1, NUM_BUFFERS_TMEM |-> 1 ] }

\* the other block size the configuration list names (`for BM in [128]
\* # 128 or 256`): BLOCK_N1 is then no multiple of BLOCK_M1
bwd_config_BM256 ==
    [ BLOCK_M1 |-> 256, BLOCK_N1 |-> 128, BLOCK_M2 |-> 128, BLOCK_N2 |-> 256,
      NUM_BUFFERS_KV |-> 1, NUM_BUFFERS_Q |-> 1, NUM_BUFFERS_DO |-> 1,
      NUM_BUFFERS_DS |-> 1, NUM_BUFFERS_TMEM |-> 1 ]

\* the programs that are followed: key block pid of a sequence with qlen
\* query rows starting at row begin_q and klen key rows, with or without a
\* window, for each activation selector
BwdTileChoices ==
    { [ pid |-> p, begin_q |-> bq, qlen |-> ql, klen |-> kl,
        WINDOW_SIZE |-> w, activation_enum_int |-> e ] :
        p \in 0 .. MaxKeyBlocks, bq \in {0, 3},
        ql \in { (n - 1) * 128 + 1 : n \in 1 .. MaxQBlocks },
        kl \in { 1, MaxKeyBlocks * 128 + 1 },
        w \in { None, << 0 >>, << 128 >> }, e \in 0 .. 2 }

\* start_n = pid * BLOCK_N1; start_m = pid * BLOCK_M2
bwd_start_n == bwd_cfg.tile.pid * bwd_cfg.BLOCK_N1
bwd_start_m == bwd_cfg.tile.pid * bwd_cfg.BLOCK_M2

Max(x, y) == IF x >= y THEN x ELSE y

\* _gdpa_bwd_tlx_compute_num_steps(start_n, qlen, BLOCK_M1, BLOCK_N1,
\* WINDOW_SIZE)
_gdpa_bwd_tlx_compute_num_steps(start_n, qlen, BM1, BN1, WINDOW_SIZE) ==
    IF WINDOW_SIZE = None
    THEN cdiv(qlen - 0, BM1)
    ELSE LET start_m_inner == (Max(0, start_n - WINDOW_SIZE[1]) \div BM1) * BM1
             end_m_inner ==
                 cdiv(Min(qlen, start_n + BN1 + WINDOW_SIZE[1]), BM1) * BM1
         IN  (end_m_inner - start_m_inner) \div BM1

\* the call as every partition writes it:
\* _gdpa_bwd_tlx_compute_num_steps(qlen, start_n, BLOCK_M1, BLOCK_N1,
\* WINDOW_SIZE), the first two arguments in this order
bwd_num_steps ==
    _gdpa_bwd_tlx_compute_num_steps(bwd_cfg.tile.qlen, bwd_start_n,
                                    bwd_cfg.BLOCK_M1, bwd_cfg.BLOCK_N1,
                                    bwd_cfg.tile.WINDOW_SIZE)

\* MASK = False at the call of _gdpa_bwd_tlx_compute_activation
bwd_MASK == FALSE

\* `if start_n < klen:` around the body of every partition
BwdProcessed == bwd_start_n < bwd_cfg.tile.klen

\* barriers of the backward kernel and the buffer count of each
BwdBarrierNames ==
    { "k_fulls", "v_fulls", "q_fulls", "do_fulls", "dsT_fulls",
      "q_empties", "do_empties", "dsT_empties",
      "qk_fulls", "ppT_fulls", "dpT_fulls", "dv_fulls", "dk_fulls",
      "dq_fulls", "ppT_empties", "dq_empties" }

BwdNumBuffers(c, name) ==
    IF name \in {"k_fulls", "v_fulls", "k", "v"} THEN c.NUM_BUFFERS_KV
    ELSE IF name \in {"q_fulls", "q_empties", "q"} THEN c.NUM_BUFFERS_Q
    ELSE IF name \in {"do_fulls", "do_empties", "do"} THEN c.NUM_BUFFERS_DO
    ELSE IF name \in {"dsT_fulls", "dsT_empties", "dsT"} THEN c.NUM_BUFFERS_DS
    ELSE c.NUM_BUFFERS_TMEM

\* tlx.alloc_barriers: no phase completed
bwd_alloc_barriers(c) ==
    [ n \in BwdBarrierNames |-> [s \in 0 .. BwdNumBuffers(c, n) - 1 |-> 0] ]

BwdPassed(b, slot, phase) == bwd_bar[b][slot] % 2 # phase

\* on-chip buffers; ppT_tiles and dpT_tiles are allocated with
\* reuse=qk_tiles: the three names are one region per slot
BwdRegions == { "k", "v", "q", "do", "dsT", "qk", "dv", "dk", "dq" }

Region(name) == IF name \in {"qk", "ppT", "dpT"} THEN "qk" ELSE name

\* a buffer slot: its content and whether the consumer of that content has
\* read it (history)
Cell(v, r) == [val |-> v, read |-> r]

bwd_local_alloc(c) ==
    [ n \in BwdRegions |-> [s \in 0 .. BwdNumBuffers(c, n) - 1 |-> Cell(NoVal, TRUE)] ]

BwdContent(ref) == bwd_mem[Region(ref[1])][ref[2]].val

BwdWrite(mem, ref, v) ==
    [mem EXCEPT ![Region(ref[1])][ref[2]] = Cell(v, FALSE)]

\* the consumer of the logical value `kind` has read slot ref
BwdMarkRead(mem, ref, kind) ==
    [mem EXCEPT ![Region(ref[1])][ref[2]].read =
                    IF mem[Region(ref[1])][ref[2]].val.kind = kind THEN TRUE ELSE @]

BwdInit ==
    /\ \E c \in get_tlx_bwd_autotune_config \cup { bwd_config_BM256 } :
       \E t \in BwdTileChoices :
          bwd_cfg = [ BLOCK_M1 |-> c.BLOCK_M1, BLOCK_N1 |-> c.BLOCK_N1,
                      BLOCK_M2 |-> c.BLOCK_M2,
                      NUM_BUFFERS_KV |-> c.NUM_BUFFERS_KV,
                      NUM_BUFFERS_Q |-> c.NUM_BUFFERS_Q,
                      NUM_BUFFERS_DO |-> c.NUM_BUFFERS_DO,
                      NUM_BUFFERS_DS |-> c.NUM_BUFFERS_DS,
                      NUM_BUFFERS_TMEM |-> c.NUM_BUFFERS_TMEM,
                      tile |-> t ]
    /\ bwd_pc = "launch"
    /\ bwd_bar = bwd_alloc_barriers(bwd_cfg)
    /\ bwd_mem = bwd_local_alloc(bwd_cfg)
    /\ bwd_part = [ act |-> [pc |-> "start", i |-> 0, pT |-> NoVal,
                             offs_m |-> 0, offs_n |-> 0],
                    red |-> [pc |-> "start", i |-> 0, curr_m |-> 0],
                    mma |-> [pc |-> "start", i |-> 0],
                    load |-> [pc |-> "start", i |-> 0, curr_m |-> 0,
                              rows |-> << >>] ]
    /\ bwd_tc = << >>
    /\ bwd_tma = {}
    /\ bwd_out = [dq |-> << >>, DV |-> NoVal, DK |-> NoVal]
    /\ cfg = CHOOSE c \in get_cuda_autotune_config : ~c.PINGPONG
    /\ tiles = << >>
    /\ bar = alloc_barriers(cfg)
    /\ q_buf = << >> /\ kv_buf = << >> /\ qk_buf = << >> /\ o_buf = << >>
    /\ o_smem = << >> /\ Out = << >> /\ act = << >> /\ mma = << >>
    /\ load = << >> /\ epi = << >> /\ tc = << >> /\ tma = {}
    /\ p_consumed = << >>
    /\ NoCall
    /\ NoDriver

BwdRunning == bwd_pc = "run"

\* tl.static_assert(BLOCK_N1 % BLOCK_M1 == 0), the assertion left out
bwd_static_assert_Skipped == TRUE

\* tl.static_assert(BLOCK_N1 % BLOCK_M1 == 0)
bwd_static_assert == bwd_cfg.BLOCK_N1 % bwd_cfg.BLOCK_M1 = 0

\* the kernel is compiled for its constexpr arguments before it is
\* launched; a failing static assertion ends the compilation
BwdCompile ==
    /\ bwd_pc = "launch"
    /\ bwd_pc' = IF bwd_static_assert THEN "run" ELSE "CompilationError"
    /\ UNCHANGED << kernelVars, hostVars, drvVars, bwd_cfg, bwd_bar, bwd_part, bwd_mem,
                    bwd_tc, bwd_tma, bwd_out >>

\* a partition whose key block starts at or past klen does nothing
BwdSkip(p) ==
    /\ BwdRunning
    /\ bwd_part[p].pc = "start"
    /\ ~BwdProcessed
    /\ bwd_part' = [bwd_part EXCEPT ![p].pc = "done"]
    /\ UNCHANGED << kernelVars, hostVars, drvVars, bwd_cfg, bwd_pc, bwd_bar, bwd_mem,
                    bwd_tc, bwd_tma, bwd_out >>

\* ------------------------------------------------- asynchronous engines
\* a TMA load completes: the tile is in its slot, the full barrier's phase
\* completes
BwdTmaComplete(ld) ==
    /\ ld \in bwd_tma
    /\ bwd_tma' = bwd_tma \ {ld}
    /\ bwd_mem' = BwdWrite(bwd_mem, ld.dst, ld.val)
    /\ bwd_bar' = ArriveAll(bwd_bar, << ld.bar >>)
    /\ UNCHANGED << kernelVars, hostVars, drvVars, bwd_cfg, bwd_pc, bwd_part, bwd_tc,
                    bwd_out >>

\* the result of a matmul: the product of what its operand slots hold, added
\* to what the destination holds if use_acc
BwdDotVal(e) ==
    LET av == BwdContent(e.a)
        bv == BwdContent(e.b)
        old == BwdContent(e.d)
    IN  IF e.d[1] \in {"dv", "dk"}
        THEN [kind |-> e.d[1],
              sum |-> (IF e.use_acc THEN old.sum ELSE {}) \cup { << av, bv >> }]
        ELSE [kind |-> e.d[1], a |-> av, b |-> bv]

\* the oldest tcgen05 operation completes: a matmul reads its operands and
\* writes its destination; then its mBarriers are arrived on
BwdTcComplete ==
    /\ bwd_tc # << >>
    /\ LET e == Head(bwd_tc)
       IN  /\ bwd_mem' =
                IF e.op = "dot"
                THEN BwdWrite(BwdMarkRead(BwdMarkRead(bwd_mem, e.a, e.a[1]),
                                          e.b, e.b[1]),
                              e.d, BwdDotVal(e))
                ELSE bwd_mem
           /\ bwd_bar' = ArriveAll(bwd_bar, e.mBarriers)
    /\ bwd_tc' = Tail(bwd_tc)
    /\ UNCHANGED << kernelVars, hostVars, drvVars, bwd_cfg, bwd_pc, bwd_part, bwd_tma,
                    bwd_out >>

\* --------------------------------------------------------- load partition
BwdTmaLoad(name, slot, v, full) ==
    [dst |-> << name, slot >>, val |-> v, bar |-> << full, slot >>]

\* load K and V: they stay in SRAM throughout the inner loop
BwdLoadKV ==
    LET kv_buf_id == _get_bufidx_phase(0, bwd_cfg.NUM_BUFFERS_KV)[1]
    IN  /\ BwdRunning
        /\ bwd_part.load.pc = "start"
        /\ BwdProcessed
        /\ bwd_tma' = bwd_tma \cup
              { BwdTmaLoad("k", kv_buf_id, [kind |-> "k", row |-> bwd_start_n], "k_fulls"),
                BwdTmaLoad("v", kv_buf_id, [kind |-> "v", row |-> bwd_start_n], "v_fulls") }
        /\ bwd_part' = [bwd_part EXCEPT !.load.pc = "q",
                                        !.load.curr_m = bwd_start_m]
        /\ UNCHANGED << kernelVars, hostVars, drvVars, bwd_cfg, bwd_pc, bwd_bar, bwd_mem,
                        bwd_tc, bwd_out >>

\* wait q_empty at q_phase ^ 1, load the Q tile at rows begin_q + curr_m
BwdLoadQ ==
    LET l == bwd_part.load
        bp == _get_bufidx_phase(l.i, bwd_cfg.NUM_BUFFERS_Q)
        row == bwd_cfg.tile.begin_q + l.curr_m
    IN  /\ BwdRunning
        /\ l.pc = "q"
        /\ l.i < bwd_num_steps
        /\ BwdPassed("q_empties", bp[1], Flip(bp[2]))
        /\ bwd_tma' = bwd_tma \cup
              { BwdTmaLoad("q", bp[1], [kind |-> "q", row |-> row], "q_fulls") }
        /\ bwd_part' = [bwd_part EXCEPT !.load.pc = "do",
                                        !.load.rows = Append(@, row)]
        /\ UNCHANGED << kernelVars, hostVars, drvVars, bwd_cfg, bwd_pc, bwd_bar, bwd_mem,
                        bwd_tc, bwd_out >>

\* wait do_empty at do_phase ^ 1, load the dO tile; curr_m += step_m
BwdLoadDO ==
    LET l == bwd_part.load
        bp == _get_bufidx_phase(l.i, bwd_cfg.NUM_BUFFERS_DO)
    IN  /\ BwdRunning
        /\ l.pc = "do"
        /\ BwdPassed("do_empties", bp[1], Flip(bp[2]))
        /\ bwd_tma' = bwd_tma \cup
              { BwdTmaLoad("do", bp[1],
                           [kind |-> "do", row |-> bwd_cfg.tile.begin_q + l.curr_m],
                           "do_fulls") }
        /\ bwd_part' = [bwd_part EXCEPT !.load.pc = "q",
                                        !.load.curr_m = @ + bwd_cfg.BLOCK_M1,
                                        !.load.i = @ + 1]
        /\ UNCHANGED << kernelVars, hostVars, drvVars, bwd_cfg, bwd_pc, bwd_bar, bwd_mem,
                        bwd_tc, bwd_out >>

BwdLoadDone ==
    /\ BwdRunning
    /\ bwd_part.load.pc = "q"
    /\ ~(bwd_part.load.i < bwd_num_steps)
    /\ bwd_part' = [bwd_part EXCEPT !.load.pc = "done"]
    /\ UNCHANGED << kernelVars, hostVars, drvVars, bwd_cfg, bwd_pc, bwd_bar, bwd_mem,
                    bwd_tc, bwd_tma, bwd_out >>

\* ---------------------------------------------------------- MMA partition
\* wait for K, V ready
BwdMmaWaitKV ==
    LET bp == _get_bufidx_phase(0, bwd_cfg.NUM_BUFFERS_KV)
    IN  /\ BwdRunning
        /\ bwd_part.mma.pc = "start"
        /\ BwdProcessed
        /\ BwdPassed("k_fulls", bp[1], bp[2])
        /\ BwdPassed("v_fulls", bp[1], bp[2])
        /\ bwd_part' = [bwd_part EXCEPT !.mma.pc = "qk"]
        /\ UNCHANGED << kernelVars, hostVars, drvVars, bwd_cfg, bwd_pc, bwd_bar, bwd_mem,
                        bwd_tc, bwd_tma, bwd_out >>

BwdDot(a, b, dst, use_acc, mBarriers) ==
    [op |-> "dot", a |-> a, b |-> b, d |-> dst, use_acc |-> use_acc,
     mBarriers |-> mBarriers]

\* the waits passed, the matmul issued, the partition at its next statement
BwdMmaIssue(pc, waits, dot, next, i) ==
    /\ BwdRunning
    /\ bwd_part.mma.pc = pc
    /\ bwd_part.mma.i < bwd_num_steps
    /\ \A n \in DOMAIN waits : BwdPassed(waits[n][1], waits[n][2], waits[n][3])
    /\ bwd_tc' = Append(bwd_tc, dot)
    /\ bwd_part' = [bwd_part EXCEPT !.mma.pc = next, !.mma.i = i]
    /\ UNCHANGED << kernelVars, hostVars, drvVars, bwd_cfg, bwd_pc, bwd_bar, bwd_mem,
                    bwd_tma, bwd_out >>

\* qkT = dot(k, qT): wait q_full, wait ppT_empty at tmem_phase ^ 1
BwdMmaQK ==
    LET i == bwd_part.mma.i
        q == _get_bufidx_phase(i, bwd_cfg.NUM_BUFFERS_Q)
        t == _get_bufidx_phase(i, bwd_cfg.NUM_BUFFERS_TMEM)
        kv == _get_bufidx_phase(0, bwd_cfg.NUM_BUFFERS_KV)[1]
    IN  BwdMmaIssue("qk",
            << << "q_fulls", q[1], q[2] >>, << "ppT_empties", t[1], Flip(t[2]) >> >>,
            BwdDot(<< "k", kv >>, << "q", q[1] >>, << "qk", t[1] >>, FALSE,
                   << << "qk_fulls", t[1] >> >>),
            "dp", i)

\* dpT = dot(v, doT): wait do_full, wait dsT_empty at tmem_phase ^ 1
BwdMmaDP ==
    LET i == bwd_part.mma.i
        do == _get_bufidx_phase(i, bwd_cfg.NUM_BUFFERS_DO)
        t == _get_bufidx_phase(i, bwd_cfg.NUM_BUFFERS_TMEM)
        kv == _get_bufidx_phase(0, bwd_cfg.NUM_BUFFERS_KV)[1]
    IN  BwdMmaIssue("dp",
            << << "do_fulls", do[1], do[2] >>, << "dsT_empties", t[1], Flip(t[2]) >> >>,
            BwdDot(<< "v", kv >>, << "do", do[1] >>, << "dpT", t[1] >>, FALSE,
                   << << "dpT_fulls", t[1] >> >>),
            "dv", i)

\* dv += dot(ppT, do): wait ppT_full
BwdMmaDV ==
    LET i == bwd_part.mma.i
        do == _get_bufidx_phase(i, bwd_cfg.NUM_BUFFERS_DO)
        t == _get_bufidx_phase(i, bwd_cfg.NUM_BUFFERS_TMEM)
        dkv == _get_bufidx_phase(0, bwd_cfg.NUM_BUFFERS_TMEM)[1]
    IN  BwdMmaIssue("dv",
            << << "ppT_fulls", t[1], t[2] >> >>,
            BwdDot(<< "ppT", t[1] >>, << "do", do[1] >>, << "dv", dkv >>, i > 0,
                   << << "do_empties", do[1] >>, << "ppT_empties", t[1] >> >>),
            "dk", i)

\* dk += dot(dsT, q): wait dsT_full
BwdMmaDK ==
    LET i == bwd_part.mma.i
        q == _get_bufidx_phase(i, bwd_cfg.NUM_BUFFERS_Q)
        t == _get_bufidx_phase(i, bwd_cfg.NUM_BUFFERS_TMEM)
        dkv == _get_bufidx_phase(0, bwd_cfg.NUM_BUFFERS_TMEM)[1]
    IN  BwdMmaIssue("dk",
            << << "dsT_fulls", t[1], t[2] >> >>,
            BwdDot(<< "dsT", t[1] >>, << "q", q[1] >>, << "dk", dkv >>, i > 0,
                   << << "q_empties", q[1] >> >>),
            "dq", i)

\* the wait on dq_empty left out
BwdDQWaits_NoWait(t) == << >>

\* the wait on dq_empty at tmem_phase itself
BwdDQWaits_SamePhase(t) == << << "dq_empties", t[1], t[2] >> >>

\* what the MMA partition waits for before the dq matmul: dq_empty at
\* tmem_phase ^ 1
BwdDQWaits(t) == << << "dq_empties", t[1], Flip(t[2]) >> >>

\* dq = dot(trans(dsT), k); the step ends
BwdMmaDQ ==
    LET i == bwd_part.mma.i
        t == _get_bufidx_phase(i, bwd_cfg.NUM_BUFFERS_TMEM)
        kv == _get_bufidx_phase(0, bwd_cfg.NUM_BUFFERS_KV)[1]
    IN  BwdMmaIssue("dq",
            BwdDQWaits(t),
            BwdDot(<< "dsT", t[1] >>, << "k", kv >>, << "dq", t[1] >>, FALSE,
                   << << "dq_fulls", t[1] >>, << "dsT_empties", t[1] >> >>),
            "qk", i + 1)

\* after the loop: tcgen05_commit(dk_full); tcgen05_commit(dv_full)
BwdMmaCommit ==
    LET dkv == _get_bufidx_phase(0, bwd_cfg.NUM_BUFFERS_TMEM)[1]
    IN  /\ BwdRunning
        /\ bwd_part.mma.pc = "qk"
        /\ ~(bwd_part.mma.i < bwd_num_steps)
        /\ bwd_tc' = bwd_tc \o
              << [op |-> "commit", mBarriers |-> << << "dk_fulls", dkv >> >>],
                 [op |-> "commit", mBarriers |-> << << "dv_fulls", dkv >> >>] >>
        /\ bwd_part' = [bwd_part EXCEPT !.mma.pc = "done"]
        /\ UNCHANGED << kernelVars, hostVars, drvVars, bwd_cfg, bwd_pc, bwd_bar, bwd_mem,
                        bwd_tma, bwd_out >>

\* --------------------------------------------------- activation partition
\* _gdpa_bwd_tlx_compute_activation is entered (accum_cnt_outer = 0,
\* accum_cnt_inner = 0); offs_m = start_m + arange(0, BLOCK_M1) and
\* offs_n = start_n + arange(0, BLOCK_N1) are computed here, once
BwdActEnter ==
    /\ BwdRunning
    /\ bwd_part.act.pc = "start"
    /\ BwdProcessed
    /\ bwd_part' = [bwd_part EXCEPT !.act.pc = "loop",
                                    !.act.offs_m = bwd_start_m,
                                    !.act.offs_n = bwd_start_n]
    /\ UNCHANGED << kernelVars, hostVars, drvVars, bwd_cfg, bwd_pc, bwd_bar, bwd_mem,
                    bwd_tc, bwd_tma, bwd_out >>

\* the entry for row m of offs_m and row n of offs_n is kept by
\* tl.where(mask, .., 0.0) and tl.where(window_mask, .., 0.0)
BwdMaskKeeps(offs_m, offs_n, m, n) ==
    /\ bwd_MASK => offs_m + m >= offs_n + n
    /\ bwd_cfg.tile.WINDOW_SIZE # None =>
           Abs((offs_m + m) - (offs_n + n)) <= bwd_cfg.tile.WINDOW_SIZE[1]

\* wait for qkT = dot(k, qT); pT = local_load(qk_tile)
BwdActLoadQK ==
    LET a == bwd_part.act
        t == _get_bufidx_phase(0 + a.i, bwd_cfg.NUM_BUFFERS_TMEM)
    IN  /\ BwdRunning
        /\ a.pc = "loop"
        /\ a.i < bwd_num_steps
        /\ BwdPassed("qk_fulls", t[1], t[2])
        /\ bwd_part' = [bwd_part EXCEPT !.act.pc = "pp",
                                        !.act.pT = BwdContent(<< "qk", t[1] >>)]
        /\ bwd_mem' = BwdMarkRead(bwd_mem, << "qk", t[1] >>, "qk")
        /\ UNCHANGED << kernelVars, hostVars, drvVars, bwd_cfg, bwd_pc, bwd_bar,
                        bwd_tc, bwd_tma, bwd_out >>

\* masking, activation by activation_enum_int, local_store(ppT_tile, ppT),
\* arrive ppT_full
BwdActStorePP ==
    LET a == bwd_part.act
        t == _get_bufidx_phase(0 + a.i, bwd_cfg.NUM_BUFFERS_TMEM)
        ppT == [kind |-> "ppT",
                p |-> SelectedTransform(bwd_cfg.tile.activation_enum_int, a.pT),
                offs_m |-> a.offs_m, offs_n |-> a.offs_n]
    IN  /\ BwdRunning
        /\ a.pc = "pp"
        /\ bwd_mem' = BwdWrite(bwd_mem, << "ppT", t[1] >>, ppT)
        /\ bwd_bar' = ArriveAll(bwd_bar, << << "ppT_fulls", t[1] >> >>)
        /\ bwd_part' = [bwd_part EXCEPT !.act.pc = "dp"]
        /\ UNCHANGED << kernelVars, hostVars, drvVars, bwd_cfg, bwd_pc, bwd_tc, bwd_tma,
                        bwd_out >>

\* the gradient factor, masked; wait for dpT = dot(v, trans(do));
\* dsT = pT * dpT; local_store(dsT_tile, dsT); arrive dsT_full
BwdActStoreDS ==
    LET a == bwd_part.act
        t == _get_bufidx_phase(0 + a.i, bwd_cfg.NUM_BUFFERS_TMEM)
        dsT == [kind |-> "dsT",
                grad |-> [of |-> a.pT, fn |-> bwd_cfg.tile.activation_enum_int],
                dpT |-> BwdContent(<< "dpT", t[1] >>),
                offs_m |-> a.offs_m, offs_n |-> a.offs_n]
    IN  /\ BwdRunning
        /\ a.pc = "dp"
        /\ BwdPassed("dpT_fulls", t[1], t[2])
        /\ bwd_mem' = BwdWrite(BwdMarkRead(bwd_mem, << "dpT", t[1] >>, "dpT"),
                               << "dsT", t[1] >>, dsT)
        /\ bwd_bar' = ArriveAll(bwd_bar, << << "dsT_fulls", t[1] >> >>)
        /\ bwd_part' = [bwd_part EXCEPT !.act.pc = "loop", !.act.i = @ + 1,
                                        !.act.pT = NoVal]
        /\ UNCHANGED << kernelVars, hostVars, drvVars, bwd_cfg, bwd_pc, bwd_tc, bwd_tma,
                        bwd_out >>

\* write back dV: wait dv_full, local_load(dv_tile), store to DV
BwdActWriteDV ==
    LET a == bwd_part.act
        dkv == _get_bufidx_phase(0, bwd_cfg.NUM_BUFFERS_TMEM)
    IN  /\ BwdRunning
        /\ a.pc = "loop"
        /\ ~(a.i < bwd_num_steps)
        /\ BwdPassed("dv_fulls", dkv[1], dkv[2])
        /\ bwd_out' = [bwd_out EXCEPT !.DV = BwdContent(<< "dv", dkv[1] >>)]
        /\ bwd_part' = [bwd_part EXCEPT !.act.pc = "dk"]
        /\ UNCHANGED << kernelVars, hostVars, drvVars, bwd_cfg, bwd_pc, bwd_bar, bwd_mem,
                        bwd_tc, bwd_tma >>

\* write back dK: wait dk_full, local_load(dk_tile), store to DK
BwdActWriteDK ==
    LET a == bwd_part.act
        dkv == _get_bufidx_phase(0, bwd_cfg.NUM_BUFFERS_TMEM)
    IN  /\ BwdRunning
        /\ a.pc = "dk"
        /\ BwdPassed("dk_fulls", dkv[1], dkv[2])
        /\ bwd_out' = [bwd_out EXCEPT !.DK = BwdContent(<< "dk", dkv[1] >>)]
        /\ bwd_part' = [bwd_part EXCEPT !.act.pc = "done"]
        /\ UNCHANGED << kernelVars, hostVars, drvVars, bwd_cfg, bwd_pc, bwd_bar, bwd_mem,
                        bwd_tc, bwd_tma >>

\* ---------------------------------------------------- reduction partition
\* curr_m = start_m
BwdRedEnter ==
    /\ BwdRunning
    /\ bwd_part.red.pc = "start"
    /\ BwdProcessed
    /\ bwd_part' = [bwd_part EXCEPT !.red.pc = "loop",
                                    !.red.curr_m = bwd_start_m]
    /\ UNCHANGED << kernelVars, hostVars, drvVars, bwd_cfg, bwd_pc, bwd_bar, bwd_mem,
                    bwd_tc, bwd_tma, bwd_out >>

\* the wait on dq_full left out
BwdRedWait_NoWait(t) == TRUE

\* wait for dq = dot(trans(dsT), k)
BwdRedWait(t) == BwdPassed("dq_fulls", t[1], t[2])

\* local_load(dq_tile), desc_dq.atomic_add at rows begin_q + curr_m,
\* arrive dq_empty, curr_m += step_m
BwdRedStep ==
    LET r == bwd_part.red
        t == _get_bufidx_phase(r.i, bwd_cfg.NUM_BUFFERS_TMEM)
    IN  /\ BwdRunning
        /\ r.pc = "loop"
        /\ r.i < bwd_num_steps
        /\ BwdRedWait(t)
        /\ bwd_out' = [bwd_out EXCEPT !.dq =
              Append(@, [i |-> r.i, row |-> bwd_cfg.tile.begin_q + r.curr_m,
                         val |-> BwdContent(<< "dq", t[1] >>)])]
        /\ bwd_mem' = BwdMarkRead(bwd_mem, << "dq", t[1] >>, "dq")
        /\ bwd_bar' = ArriveAll(bwd_bar, << << "dq_empties", t[1] >> >>)
        /\ bwd_part' = [bwd_part EXCEPT !.red.i = @ + 1,
                                        !.red.curr_m = @ + bwd_cfg.BLOCK_M1]
        /\ UNCHANGED << kernelVars, hostVars, drvVars, bwd_cfg, bwd_pc, bwd_tc, bwd_tma >>

BwdRedDone ==
    /\ BwdRunning
    /\ bwd_part.red.pc = "loop"
    /\ ~(bwd_part.red.i < bwd_num_steps)
    /\ bwd_part' = [bwd_part EXCEPT !.red.pc = "done"]
    /\ UNCHANGED << kernelVars, hostVars, drvVars, bwd_cfg, bwd_pc, bwd_bar, bwd_mem,
                    bwd_tc, bwd_tma, bwd_out >>

BwdNext ==
    \/ BwdCompile
    \/ \E p \in {"act", "red", "mma", "load"} : BwdSkip(p)
    \/ \E ld \in bwd_tma : BwdTmaComplete(ld)
    \/ BwdTcComplete
    \/ BwdLoadKV \/ BwdLoadQ \/ BwdLoadDO \/ BwdLoadDone
    \/ BwdMmaWaitKV \/ BwdMmaQK \/ BwdMmaDP \/ BwdMmaDV \/ BwdMmaDK
    \/ BwdMmaDQ \/ BwdMmaCommit
    \/ BwdActEnter \/ BwdActLoadQK \/ BwdActStorePP \/ BwdActStoreDS
    \/ BwdActWriteDV \/ BwdActWriteDK
    \/ BwdRedEnter \/ BwdRedStep \/ BwdRedDone

BwdSpec == BwdInit /\ [][BwdNext]_vars

BwdAllDone ==
    /\ BwdRunning
    /\ \A p \in {"act", "red", "mma", "load"} : bwd_part[p].pc = "done"
    /\ bwd_tc = << >>
    /\ bwd_tma = {}

\* C22: qk, ppT and dpT share one region per slot; whenever a step writes a
\* logical value into that region (a completing K . Q^T or V . dO^T matmul,
\* or the activation partition's store of ppT), the value the region held
\* has been read by its consumer.
C22_SharedRegionReuse ==
    [][ \A s \in DOMAIN bwd_mem.qk :
            bwd_mem.qk[s].val # bwd_mem'.qk[s].val => bwd_mem.qk[s].read ]_vars

\* number of dq matmuls into the slot of step i that have completed
DqCompleted(i) ==
    bwd_bar["dq_fulls"][_get_bufidx_phase(i, bwd_cfg.NUM_BUFFERS_TMEM)[1]]

\* C23: the reduction partition has done one atomic add per step it has
\* gone through, in step order; the add of step i happened after the dq
\* matmul of step i completed, added a dq product, and went to the rows of
\* the Q tile the load partition loaded for step i; the MMA partition has
\* issued no more dq matmuls than the reduction partition has read, plus
\* the number of dq slots; a finished reduction partition has added every
\* step.
C23_OneAddPerStep ==
    bwd_pc = "run" =>
        /\ Len(bwd_out.dq) = bwd_part.red.i
        /\ \A n \in 1 .. Len(bwd_out.dq) :
              /\ bwd_out.dq[n].i = n - 1
              /\ bwd_out.dq[n].val.kind = "dq"
              /\ DqCompleted(n - 1) >= ((n - 1) \div bwd_cfg.NUM_BUFFERS_TMEM) + 1
              /\ n <= Len(bwd_part.load.rows)
              /\ bwd_out.dq[n].row = bwd_part.load.rows[n]
        /\ bwd_part.mma.i <= Len(bwd_out.dq) + bwd_cfg.NUM_BUFFERS_TMEM
        /\ (bwd_part.red.pc = "done" /\ BwdProcessed) =>
               Len(bwd_out.dq) = Max(bwd_num_steps, 0)

\* a finished program of two steps: two adds, the second one block of rows
\* after the first
C23_Witness ==
    /\ BwdAllDone
    /\ bwd_cfg.tile.begin_q = 3
    /\ Len(bwd_out.dq) = 2
    /\ bwd_out.dq[1].row = 3 + bwd_start_m
    /\ bwd_out.dq[2].row = 3 + bwd_start_m + bwd_cfg.BLOCK_M1

\* rows of a tile at which the masks are compared: its first and last row
TileCorners(B) == {0, B - 1}

\* the rows, counted from the start of the sequence, of the Q tile the load
\* partition loaded for step i start at
LoadedQBase(i) == bwd_part.load.rows[i + 1] - bwd_cfg.tile.begin_q

\* C24: in every step i of the activation partition, the entry for key row
\* n and query row m of the Q tile loaded for step i is kept by the masks
\* applied to ppT and to the gradient factor exactly if it passes the
\* enabled tests: |m - n| <= WINDOW_SIZE for the window, n <= m for the
\* causal mask.
C24_MaskFollowsLoadedRows ==
    bwd_part.act.pc \in {"pp", "dp"} =>
        \A m \in TileCorners(bwd_cfg.BLOCK_M1) :
        \A n \in TileCorners(bwd_cfg.BLOCK_N1) :
            LET qrow == LoadedQBase(bwd_part.act.i) + m
                krow == bwd_start_n + n
            IN  BwdMaskKeeps(bwd_part.act.offs_m, bwd_part.act.offs_n, m, n)
                <=> /\ bwd_cfg.tile.WINDOW_SIZE # None =>
                           Abs(qrow - krow) <= bwd_cfg.tile.WINDOW_SIZE[1]
                    /\ bwd_MASK => ~(krow > qrow)

\* the first step of a program with a window: the mask is the one of the
\* rows of the loaded Q tile
C24_Witness ==
    /\ bwd_part.act.pc = "dp"
    /\ bwd_part.act.i = 0
    /\ bwd_cfg.tile.WINDOW_SIZE = << 0 >>
    /\ LoadedQBase(0) = bwd_part.act.offs_m

\* C25: without a window, a program whose key block starts below klen runs
\* ceil(qlen / BLOCK_M1) steps in each of its four partitions, and the load
\* partition streams every query block of the sequence, from its first row.
C25_EveryQueryBlockStreamed ==
    (BwdRunning /\ BwdProcessed /\ bwd_cfg.tile.WINDOW_SIZE = None) =>
        LET n == cdiv(bwd_cfg.tile.qlen, bwd_cfg.BLOCK_M1)
        IN  /\ \A p \in {"act", "red", "mma", "load"} :
                  bwd_part[p].pc = "done" => bwd_part[p].i = n
            /\ bwd_part.load.pc = "done" =>
                  bwd_part.load.rows =
                      [j \in 1 .. n |->
                          bwd_cfg.tile.begin_q + (j - 1) * bwd_cfg.BLOCK_M1]

\* C26: a configuration in which BLOCK_N1 is no multiple of BLOCK_M1 ends in
\* the failed static assertion and is never launched: no barrier has been
\* arrived on, no transfer or matmul issued, no partition has moved and
\* nothing was written.
C26_StaticAssertRejects ==
    (bwd_cfg.BLOCK_N1 % bwd_cfg.BLOCK_M1 # 0) =>
        /\ bwd_pc \in {"launch", "CompilationError"}
        /\ bwd_bar = bwd_alloc_barriers(bwd_cfg)
        /\ bwd_mem = bwd_local_alloc(bwd_cfg)
        /\ bwd_tc = << >> /\ bwd_tma = {}
        /\ \A p \in {"act", "red", "mma", "load"} : bwd_part[p].pc = "start"
        /\ bwd_out = [dq |-> << >>, DV |-> NoVal, DK |-> NoVal]

\* the rejected configuration, after compilation
C26_Witness ==
    /\ bwd_cfg.BLOCK_M1 = 256 /\ bwd_cfg.BLOCK_N1 = 128
    /\ bwd_pc = "CompilationError"
    /\ ~ENABLED BwdNext

\* ------------------------------------- forward kernel, empty key sequences
\* a tile of a batch element without key rows: klen = end_k - begin_k = 0
EmptyKeyTile == [start_m |-> 0, qlen |-> BLOCK_M, klen |-> 0]

EmptyKeyInit ==
    InitWith({ c \in SingleBuffered : c.PINGPONG }
             \cup { c \in get_cuda_autotune_config : ~c.PINGPONG },
             ShortTileChoices \cup { EmptyKeyTile })

EmptyKeySpec == EmptyKeyInit /\ [][Next]_vars

\* C27: for every processed tile and every key length klen >= 0 the
\* activation partitions, the MMA partition and the load partition run the
\* same number of inner steps: whenever a partition stands between two
\* tiles, its step counter (accum_cnt, accum_cnt_qk, accum_cnt_kv / 2) is
\* the number of steps of `range(0, klen, BLOCK_N)` summed over the
\* processed tiles it has gone through
C27_StepCountsAgree ==
    /\ \A i \in 0 .. 1 :
          act[i].pc = "tile" => act[i].accum_cnt = StepsBefore(act[i].idx)
    /\ mma.pc = "tile" => mma.accum_cnt_qk = StepsBefore(mma.idx)
    /\ load.pc = "tile" => load.accum_cnt_kv = 2 * StepsBefore(load.idx)

\* ------------------------------- forward kernel, two accumulator barriers
\* the autotuned buffer counts with NUM_BUFFERS_O = 2 instead of 1
TwoOutputBuffers ==
    { [ NUM_BUFFERS_Q  |-> 1, NUM_BUFFERS_KV |-> 3,
        NUM_BUFFERS_QK |-> 1, NUM_BUFFERS_O  |-> 2,
        PINGPONG |-> FALSE ] }

OutputSlotInit ==
    \/ InitWith({ c \in SingleBuffered : c.PINGPONG }, ShortTileChoices)
    \/ /\ InitWith(TwoOutputBuffers, { t \in ShortTileChoices : Processed(t) })
       /\ tiles[MaxTiles].klen <= BLOCK_N

OutputSlotSpec == OutputSlotInit /\ [][Next]_vars

\* the slot the activation partitions read and release for the tile of
\* iteration idx: bufIdx_o_outer of the per-tile counter accum_cnt_outer
OSlotOfTile(idx) == _get_bufidx_phase(TilesBefore(idx), cfg.NUM_BUFFERS_O)[1]

\* C28: for NUM_BUFFERS_O in {1, 2}, every P*V matmul the MMA partition
\* issues for a tile goes to the accumulator slot the activation partition
\* reads and releases for that tile: the slot of the per-step counter
\* (accum_cnt_o, accum_cnt_o1) is the slot of the per-tile counter
C28_OneSlotPerTile ==
    [][ /\ \A k \in (Len(tc) + 1) .. Len(tc') :
              IsPV(tc'[k]) => tc'[k].d[3] = OSlotOfTile(mma.idx)
        /\ \A i \in 0 .. 1 :
              (act[i].pc # "epi" /\ act'[i].pc = "epi")
                 => _get_bufidx_phase(act[i].accum_cnt_outer, cfg.NUM_BUFFERS_O)[1]
                       = OSlotOfTile(act[i].idx)
      ]_vars

\* C29: batch isolation of keys: every key/value row that enters the output
\* of a tile of batch element b is a row of b, in [begin_k(b), end_k(b));
\* the rows of a K or V tile at or beyond end_k(b) do not influence it.
C29_KeysOfOwnBatchOnly ==
    \A w \in Written :
        o[w].k_rows \subseteq
            args.key_offset[w[1] + 1] .. args.key_offset[w[1] + 2] - 1

\* the output elements (row of the packed tensor, head) a written work item
\* has stored
ElementsOf(w) == { << r, w[2] >> : r \in o[w].row_lo .. o[w].row_hi - 1 }

\* C30: the rows written for a tile of batch element b lie within
\* [begin_q(b), end_q(b)), the rows of the tile at or beyond end_q being
\* clipped by the store descriptor, and over a whole launch no output
\* element (row, head) is written by two tiles or by two units.
C30_OutputRowsDisjoint ==
    /\ \A w \in Written :
          /\ args.query_offset[w[1] + 1] <= o[w].row_lo
          /\ o[w].row_lo < o[w].row_hi
          /\ o[w].row_hi <= args.query_offset[w[1] + 2]
          /\ Cardinality({ v \in visits : v.item = w }) = 1
    /\ \A w1, w2 \in Written :
          w1 # w2 => ElementsOf(w1) \cap ElementsOf(w2) = {}

\* a returned call on two units and two heads, with a sequence of
\* BLOCK_M + 1 rows whose two tiles are written, the second one clipped to
\* its single row, and a second sequence behind it
C30_Witness ==
    /\ fwd.pc = "returned"
    /\ fwd.grid >= 2
    /\ args.nheads = 2
    /\ BATCH = 2
    /\ \E w1, w2 \in Written :
          /\ w1[1] = 0 /\ w2[1] = 0 /\ w1[2] = w2[2]
          /\ w1[3] = 0 /\ w2[3] = 1
          /\ o[w1].row_hi - o[w1].row_lo = BLOCK_M
          /\ o[w2].row_hi - o[w2].row_lo = 1
    /\ \E w \in Written : w[1] = 1

\* --------------------------------------- backward kernel, fair scheduling
\* every partition that can step eventually steps, every issued load and
\* every issued tcgen05 operation eventually completes
BwdFairness ==
    /\ WF_vars(BwdCompile)
    /\ WF_vars(\E ld \in bwd_tma : BwdTmaComplete(ld))
    /\ WF_vars(BwdTcComplete)
    /\ WF_vars(BwdSkip("load") \/ BwdLoadKV \/ BwdLoadQ \/ BwdLoadDO \/ BwdLoadDone)
    /\ WF_vars(BwdSkip("mma") \/ BwdMmaWaitKV \/ BwdMmaQK \/ BwdMmaDP \/ BwdMmaDV
                 \/ BwdMmaDK \/ BwdMmaDQ \/ BwdMmaCommit)
    /\ WF_vars(BwdSkip("act") \/ BwdActEnter \/ BwdActLoadQK \/ BwdActStorePP
                 \/ BwdActStoreDS \/ BwdActWriteDV \/ BwdActWriteDK)
    /\ WF_vars(BwdSkip("red") \/ BwdRedEnter \/ BwdRedStep \/ BwdRedDone)

BwdFairSpec == BwdSpec /\ BwdFairness

\* the number of inner steps a partition has gone through
BwdStepsOf(p) == bwd_part[p].i

\* the number of iterations of `for .. in range(num_steps)`
BwdStepsToRun == Max(0, bwd_num_steps)

\* C31: with every buffer count equal to 1, for every qlen, klen, key block
\* and window setting the four partitions run the same number of inner
\* steps (none is ever ahead of the number they all compute, and all have
\* run that number when they are done), and under fair scheduling with
\* every asynchronous operation completing, a launched program runs to
\* completion: all four partitions end and nothing stays in flight.
C31_BackwardRunsToCompletion ==
    /\ [](\A p \in {"act", "red", "mma", "load"} :
             /\ BwdStepsOf(p) <= BwdStepsToRun
             /\ (BwdProcessed /\ bwd_part[p].pc = "done")
                    => BwdStepsOf(p) = BwdStepsToRun)
    /\ (BwdRunning ~> BwdAllDone)

\* a finished program of two inner steps under a window
C31_Witness ==
    /\ BwdAllDone
    /\ bwd_cfg.tile.WINDOW_SIZE # None
    /\ \A p \in {"act", "red", "mma", "load"} : BwdStepsOf(p) = 2

\* what the matmuls of inner step i multiply: the dO tile and the Q tile of
\* the step, the scores K . Q^T of the step
BwdStepRow(i) == bwd_cfg.tile.begin_q + bwd_start_m + i * bwd_cfg.BLOCK_M1
ExpDO(i) == [kind |-> "do", row |-> BwdStepRow(i)]
ExpQ(i) == [kind |-> "q", row |-> BwdStepRow(i)]
ExpQKT(i) == [kind |-> "qk", a |-> [kind |-> "k", row |-> bwd_start_n], b |-> ExpQ(i)]

\* a summand of dV is ppT . dO of one step, a summand of dK is dsT . Q
IsDVTerm(s, i) ==
    /\ s[1].kind = "ppT"
    /\ s[1].p = SelectedTransform(bwd_cfg.tile.activation_enum_int, ExpQKT(i))
    /\ s[2] = ExpDO(i)

IsDKTerm(s, i) ==
    /\ s[1].kind = "dsT"
    /\ s[1].grad.of = ExpQKT(i)
    /\ s[1].dpT.kind = "dpT" /\ s[1].dpT.b = ExpDO(i)
    /\ s[2] = ExpQ(i)

IsSumOverSteps(acc, kind, n) ==
    /\ acc.kind = kind
    /\ Cardinality(acc.sum) = n
    /\ \A i \in 0 .. n - 1 :
          \E s \in acc.sum : IF kind = "dv" THEN IsDVTerm(s, i) ELSE IsDKTerm(s, i)

BwdPendingInto(name) ==
    \E k \in DOMAIN bwd_tc : bwd_tc[k].op = "dot" /\ bwd_tc[k].d[1] = name

\* C32: the activation partition reads the dV and dK accumulators for
\* write-back only after every dV and dK matmul of the key block has
\* completed, and for every number of inner steps what it writes back is
\* the sum over the executed steps of ppT . dO (dV) and of dsT . Q (dK).
C32_WriteBackIsSum ==
    /\ (BwdProcessed /\ bwd_part.act.pc \in {"dk", "done"}) =>
          /\ bwd_part.mma.pc = "done" /\ ~BwdPendingInto("dv")
          /\ IsSumOverSteps(bwd_out.DV, "dv", BwdStepsToRun)
    /\ (BwdProcessed /\ bwd_part.act.pc = "done") =>
          /\ ~BwdPendingInto("dk")
          /\ IsSumOverSteps(bwd_out.DK, "dk", BwdStepsToRun)

\* no partition has taken a step
AtKernelEntry ==
    /\ \A i \in 0 .. 1 : act[i].pc = "tile" /\ act[i].idx = 0
    /\ mma.pc = "tile" /\ mma.idx = 0
    /\ load.pc = "tile" /\ load.idx = 0
    /\ epi.idx = 0

\* the number of K/V transfers the load partition has issued, the number of
\* them into slot s, and the number of releases slot s has received from
\* the MMA partition
KVTransfers == load.accum_cnt_kv + (IF load.pc \in {"q1", "v", "lv"} THEN 1 ELSE 0)
KVTransfersInto(s) ==
    Cardinality({ u \in 0 .. KVTransfers - 1 : u % cfg.NUM_BUFFERS_KV = s })
KVReleases(s) == bar["consumer_release_kv"][s] - 1

\* the load partition stands before the producer acquire of its next K/V
\* transfer
AtKVAcquire ==
    \/ load.pc \in {"k", "lk", "v", "lv"}

\* C33: before any partition starts, each of the NUM_BUFFERS_KV release
\* barriers of the K/V ring has been arrived exactly once and no other
\* barrier has been arrived; the first NUM_BUFFERS_KV transfers pass their
\* acquire without a release from the MMA partition, and every later
\* transfer into a slot passes it exactly when the slot has received one
\* release per earlier transfer into it.
C33_RingStartsReleased ==
    /\ AtKernelEntry =>
          \A b \in BarrierNames : \A s \in DOMAIN bar[b] :
              bar[b][s] = IF b = "consumer_release_kv" THEN 1 ELSE 0
    /\ \A s \in 0 .. cfg.NUM_BUFFERS_KV - 1 :
          /\ KVReleases(s) >= 0
          /\ KVReleases(s) <= KVTransfersInto(s)
          /\ KVTransfersInto(s) <= KVReleases(s) + 1
    /\ AtKVAcquire =>
          /\ KVTransfers < cfg.NUM_BUFFERS_KV => LoadAcquireKV(KVTransfers)
          /\ LoadAcquireKV(KVTransfers)
                <=> KVReleases(KVTransfers % cfg.NUM_BUFFERS_KV)
                       = KVTransfers \div cfg.NUM_BUFFERS_KV

\* the load partition passes the acquire of its fourth transfer, the second
\* into slot 0, after one release of that slot
C33_Witness ==
    /\ AtKVAcquire
    /\ KVTransfers = cfg.NUM_BUFFERS_KV
    /\ KVReleases(0) = 1
    /\ LoadAcquireKV(KVTransfers)

\* ===================================================== the benchmark driver
\* tritonbench/utils/run_utils.py: tritonbench_run, run_config, run_in_task,
\* run_in_helion, _run and run_one_operator.  drv is one record:
\*   pc        where the driver is
\*   fbcode    is_fbcode()
\*   argv      sys.argv
\*   ops       the operator list of tritonbench_run
\*   isolate   args.isolate
\*   config    the entries of the config file of run_config, in file order
\*   i         the next position in ops or config
\*   task_args, with_bwd, has_bwd   the call of run_one_operator
\*   log       history: what was run, in order, with how it ended
\*   end       how the followed call ended

\* the longest operator list and the longest config file
MaxOps == 3
MaxEntries == 2

\* operators: one listed in BWD_ARGS_OPS, one in FWD_ONLY_OPS, one in neither
DrvOps == { "flash_attention", "triton_dot_compress", "softmax" }

FWD_ONLY_OPS == { "triton_dot_compress", "triton_group_index_select" }

BWD_ARGS_OPS ==
    [ op \in { "flash_attention", "generalized_dot_product_attention" } |->
        IF op = "flash_attention" THEN << "--causal" >>
        ELSE << "--skip", "pffn_baseline,mkl_jfav3" >> ]

\* ",".join(ops): the value of --op on the command line, which
\* args.op.split(",") takes apart again
RECURSIVE JoinOps(_)
JoinOps(ops) ==
    IF Len(ops) = 1 THEN ops[1] ELSE ops[1] \o "," \o JoinOps(Tail(ops))

\* the operator lists of a command line: 1 .. MaxOps operators
OpLists == UNION { [ 1 .. n -> DrvOps ] : n \in 1 .. MaxOps }

\* the entries of a config file: name -> op, args, disabled, runner
ConfigEntries ==
    { [ name |-> n, op |-> op, args |-> << "--op", op >>, disabled |-> dis,
        runner |-> r ] :
        n \in { "bench_a", "bench_b" }, op \in { "softmax", "flash_attention" },
        dis \in BOOLEAN, r \in { "", "helion" } }

\* config files: 1 .. MaxEntries entries with distinct names
ConfigFiles ==
    { c \in UNION { [ 1 .. n -> ConfigEntries ] : n \in 1 .. MaxEntries } :
        \A a, b \in DOMAIN c : a # b => c[a].name # c[b].name }

\* the driver's record, everything but the inputs at its starting value
DrvStart(pc, fbcode) ==
    [ pc |-> pc, fbcode |-> fbcode, argv |-> << >>, ops |-> << >>,
      isolate |-> FALSE, config |-> << >>, i |-> 1, task_args |-> << >>,
      with_bwd |-> FALSE, has_bwd |-> FALSE, log |-> << >>, end |-> "" ]

\* sys.executable
Executable == "python"

\* path_utils.remove_cmd_parameter: the command line without the parameter
\* and, for a parameter that takes one, without its value
RECURSIVE remove_cmd_parameter(_, _)
remove_cmd_parameter(argv, key) ==
    IF argv = << >> THEN << >>
    ELSE IF Head(argv) = key
    THEN IF key = "--isolate" \/ Len(argv) = 1
         THEN remove_cmd_parameter(Tail(argv), key)
         ELSE remove_cmd_parameter(Tail(Tail(argv)), key)
    ELSE << Head(argv) >> \o remove_cmd_parameter(Tail(argv), key)

\* path_utils.add_cmd_parameter: the command line with the parameter and
\* its value at the end
add_cmd_parameter(argv, key, value) == argv \o << key, value >>

\* run_in_task, lines 323-343: the command line of the subprocess.
\* op_args = << >> stands for no op_args, benchmark_name = "" for none.
\* op_task_cmd.extend(op_args) copies the elements op_args has at line 335;
\* the extension of op_args at line 337 comes after it and changes op_args
\* only, which nothing reads again.
op_task_cmd(fbcode, argv, op, op_args, benchmark_name) ==
    LET base == IF fbcode THEN << >> ELSE << Executable >>
        cmd ==
            IF op_args = << >>
            THEN base \o add_cmd_parameter(
                     remove_cmd_parameter(
                         remove_cmd_parameter(
                             remove_cmd_parameter(argv, "--op"),
                             "--isolate"),
                         "--op-collection"),
                     "--op", op)
            ELSE base \o (IF fbcode THEN << argv[1] >> ELSE << >>) \o op_args
    IN  IF ~fbcode /\ cmd[2] # "run.py"
        THEN << cmd[1], "run.py" >> \o Tail(cmd)
        ELSE cmd

\* one entry of the history
Ran(by, op, name, cmd, result, to_caller) ==
    [ by |-> by, op |-> op, name |-> name, cmd |-> cmd, result |-> result,
      to_caller |-> to_caller ]

\* how a subprocess can end: exit status 0, a non-zero exit status, or a
\* keyboard interrupt while the driver waits for it
SubprocessOutcomes == { "ok", "nonzero", "interrupt" }

\* run_in_task with the handler of CalledProcessError left out: a non-zero
\* status leaves through the caller
run_in_task_Unhandled(d, op, op_args, benchmark_name, outcome, next) ==
    LET cmd == op_task_cmd(d.fbcode, d.argv, op, op_args, benchmark_name)
        e   == Ran("run_in_task", op, benchmark_name, cmd, outcome, "")
    IN  CASE outcome = "ok" ->
               [ d EXCEPT !.log = Append(@, e), !.pc = next, !.i = @ + 1 ]
          [] outcome = "nonzero" ->
               [ d EXCEPT !.log = Append(@, e), !.pc = "raised",
                          !.end = "CalledProcessError" ]
          [] outcome = "interrupt" ->
               [ d EXCEPT !.log = Append(@, e), !.pc = "exit",
                          !.end = "exit 1" ]

\* run_in_task, lines 344-363: check_call raises CalledProcessError for a
\* non-zero status, which is passed over; KeyboardInterrupt ends the
\* process with sys.exit(1).  d is the driver's record at the call, next
\* the pc the caller goes on with.
run_in_task(d, op, op_args, benchmark_name, outcome, next) ==
    LET cmd == op_task_cmd(d.fbcode, d.argv, op, op_args, benchmark_name)
        e   == Ran("run_in_task", op, benchmark_name, cmd, outcome, "")
    IN  IF outcome = "interrupt"
        THEN [ d EXCEPT !.log = Append(@, e), !.pc = "exit", !.end = "exit 1" ]
        ELSE [ d EXCEPT !.log = Append(@, e), !.pc = next, !.i = @ + 1 ]

\* run_in_helion, lines 92-106: check_call with no handler, so a non-zero
\* status and a keyboard interrupt both leave through the caller
run_in_helion(d, op, op_args, outcome, next) ==
    LET cmd == << Executable, "benchmarks/run.py" >> \o op_args
        e   == Ran("run_in_helion", op, "", cmd, outcome, "")
    IN  CASE outcome = "ok" ->
               [ d EXCEPT !.log = Append(@, e), !.pc = next, !.i = @ + 1 ]
          [] outcome = "nonzero" ->
               [ d EXCEPT !.log = Append(@, e), !.pc = "raised",
                          !.end = "CalledProcessError" ]
          [] outcome = "interrupt" ->
               [ d EXCEPT !.log = Append(@, e), !.pc = "raised",
                          !.end = "KeyboardInterrupt" ]

\* _run, lines 192-261: opbench.run returns or raises; either way the
\* finally block runs, and its last statement is return metrics, so the
\* call returns the metrics and an exception on its way out is dropped
_run(d, op, raises, next) ==
    LET e == Ran("_run", op, "", << >>, IF raises THEN "raised" ELSE "ok",
                 "metrics")
    IN  [ d EXCEPT !.log = Append(@, e), !.pc = next, !.i = @ + 1 ]

\* tritonbench_run, lines 178-179, the forcing left out: isolation only as
\* requested
ForceIsolate_AsRequested(ops, isolate) == isolate

\* tritonbench_run, lines 178-179: more than one operator forces isolation
ForceIsolate(ops, isolate) == isolate \/ Len(ops) >= 2

\* the driver at its entry: tritonbench_run with an operator list on the
\* command line, tritonbench_run with TRITONBENCH_RUN_CONFIG naming a config
\* file, or run_one_operator; kernels and entry point are not followed
DriverInit ==
    /\ \E fb \in BOOLEAN :
         \/ \E ops \in OpLists, iso \in BOOLEAN :
              drv = [ DrvStart("tritonbench_run", fb) EXCEPT
                        !.argv = << "run.py", "--op", JoinOps(ops) >>
                                 \o (IF iso THEN << "--isolate" >> ELSE << >>),
                        !.ops = ops, !.isolate = iso ]
         \/ \E c \in ConfigFiles, extra \in { << >>, << "--rep", "1" >> } :
              drv = [ DrvStart("tritonbench_run", fb) EXCEPT
                        !.argv = << "run.py" >> \o extra, !.config = c ]
         \/ \E op \in DrvOps, wb \in BOOLEAN, hb \in BOOLEAN :
              drv = [ DrvStart("run_one_operator", fb) EXCEPT
                        !.task_args = << "--op", op >>,
                        !.with_bwd = wb, !.has_bwd = hb ]
    /\ cfg = CHOOSE c \in get_cuda_autotune_config : ~c.PINGPONG
    /\ tiles = << >>
    /\ bar = alloc_barriers(cfg)
    /\ q_buf = << >> /\ kv_buf = << >> /\ qk_buf = << >> /\ o_buf = << >>
    /\ o_smem = << >> /\ Out = << >> /\ act = << >> /\ mma = << >>
    /\ load = << >> /\ epi = << >> /\ tc = << >> /\ tma = {}
    /\ p_consumed = << >>
    /\ NoCall
    /\ NoBackward

DrvFrame == UNCHANGED << kernelVars, hostVars, bwdVars >>

\* tritonbench_run, lines 109-179: with TRITONBENCH_RUN_CONFIG set the
\* config file is run; otherwise the operator list is run in normal mode
tritonbench_run ==
    /\ drv.pc = "tritonbench_run"
    /\ drv' = IF drv.config # << >>
              THEN [ drv EXCEPT !.pc = "run_config" ]
              ELSE [ drv EXCEPT !.pc = "loop",
                       !.isolate = ForceIsolate(drv.ops, drv.isolate) ]
    /\ DrvFrame

\* tritonbench_run, lines 182-187: one operator of the list, in a
\* subprocess when args.isolate holds and in the driver process otherwise
tritonbench_run_op ==
    /\ drv.pc = "loop"
    /\ drv.i <= Len(drv.ops)
    /\ LET op == drv.ops[drv.i]
       IN  IF drv.isolate
           THEN \E outcome \in SubprocessOutcomes :
                    drv' = run_in_task(drv, op, << >>, "", outcome, "loop")
           ELSE \E raises \in BOOLEAN :
                    drv' = _run(drv, op, raises, "loop")
    /\ DrvFrame

\* tritonbench_run, line 189: the list is through
tritonbench_run_return ==
    /\ drv.pc = "loop"
    /\ drv.i > Len(drv.ops)
    /\ drv' = [ drv EXCEPT !.pc = "done", !.end = "returned" ]
    /\ DrvFrame

\* run_config, lines 271-293: one entry of the config file; a disabled one
\* is skipped, runner "helion" goes to run_in_helion, the others to
\* run_in_task with the entry's name as benchmark_name
run_config ==
    /\ drv.pc = "run_config"
    /\ drv.i <= Len(drv.config)
    /\ LET b       == drv.config[drv.i]
           op_args == b.args \o Tail(drv.argv)
       IN  IF b.disabled
           THEN drv' = [ drv EXCEPT !.i = @ + 1 ]
           ELSE \E outcome \in SubprocessOutcomes :
                  drv' = IF b.runner = "helion"
                         THEN run_in_helion(drv, b.op, op_args, outcome,
                                            "run_config")
                         ELSE run_in_task(drv, b.op, op_args, b.name, outcome,
                                          "run_config")
    /\ DrvFrame

\* run_config, and line 114 of tritonbench_run: the file is through
run_config_return ==
    /\ drv.pc = "run_config"
    /\ drv.i > Len(drv.config)
    /\ drv' = [ drv EXCEPT !.pc = "done", !.end = "returned" ]
    /\ DrvFrame

\* run_one_operator, lines 304-312: the forward run, then the arguments
\* of the backward run.  Line 311 reads tb_args, a name the function and
\* the module do not define: for an operator listed in BWD_ARGS_OPS the
\* statement raises NameError.
run_one_operator ==
    /\ drv.pc = "run_one_operator"
    /\ LET op  == drv.task_args[2]
           e   == Ran("op.run", op, "", drv.task_args, "ok", "")
           fwd_done == [ drv EXCEPT !.log = Append(@, e) ]
       IN  drv' =
             IF drv.with_bwd /\ drv.has_bwd /\ op \notin FWD_ONLY_OPS
             THEN IF op \in DOMAIN BWD_ARGS_OPS
                  THEN [ fwd_done EXCEPT !.pc = "raised", !.end = "NameError" ]
                  ELSE [ fwd_done EXCEPT !.pc = "bwd",
                           !.task_args = @ \o << "--mode", "bwd" >> ]
             ELSE [ fwd_done EXCEPT !.pc = "done", !.end = "returned" ]
    /\ DrvFrame

\* run_one_operator, lines 313-314: the backward run
run_one_operator_bwd ==
    /\ drv.pc = "bwd"
    /\ drv' = [ drv EXCEPT
                  !.log = Append(@, Ran("op.run", drv.task_args[2], "",
                                        drv.task_args, "ok", "")),
                  !.pc = "done", !.end = "returned" ]
    /\ DrvFrame

DriverNext ==
    \/ tritonbench_run
    \/ tritonbench_run_op
    \/ tritonbench_run_return
    \/ run_config
    \/ run_config_return
    \/ run_one_operator
    \/ run_one_operator_bwd

DriverSpec == DriverInit /\ [][DriverNext]_vars

\* ------------------------------------------------------------------ C34
\* the command line has the parameter followed by the value
HasParameter(cmd, key, value) ==
    \E k \in 1 .. Len(cmd) - 1 : cmd[k] = key /\ cmd[k + 1] = value

\* tritonbench_run in normal mode, past its entry
NormalMode == drv.pc \in { "loop", "done", "exit" } /\ drv.ops # << >>

IsolationRequested == \E k \in DOMAIN drv.argv : drv.argv[k] = "--isolate"

\* C34: in normal mode with two or more operators every run is a
\* subprocess of run_in_task, the k-th run is the k-th operator of the list,
\* its command line names that operator and no run is in the driver
\* process; when the driver returns every operator of the list has been
\* run.  With one operator and isolation not requested the run is in the
\* driver process.
C34_OperatorsIsolatedInOrder ==
    NormalMode =>
      /\ Len(drv.log) <= Len(drv.ops)
      /\ Len(drv.log) = drv.i - 1 + (IF drv.pc = "exit" THEN 1 ELSE 0)
      /\ \A k \in DOMAIN drv.log : drv.log[k].op = drv.ops[k]
      /\ drv.end = "returned" => Len(drv.log) = Len(drv.ops)
      /\ Len(drv.ops) >= 2 =>
           \A k \in DOMAIN drv.log :
              /\ drv.log[k].by = "run_in_task"
              /\ HasParameter(drv.log[k].cmd, "--op", drv.ops[k])
      /\ (Len(drv.ops) = 1 /\ ~IsolationRequested) =>
           \A k \in DOMAIN drv.log : drv.log[k].by = "_run"

\* three operators, isolation not requested, all run in subprocesses
C34_Witness ==
    /\ NormalMode /\ drv.end = "returned"
    /\ Len(drv.ops) = MaxOps /\ ~IsolationRequested
    /\ Len(drv.log) = MaxOps
    /\ \A k \in DOMAIN drv.log : drv.log[k].by = "run_in_task"
    /\ drv.ops[1] # drv.ops[2]

\* ------------------------------------------------------------------ C35
\* the entries of the list or the config file that are to be launched, in
\* order: every operator in normal mode, the entries not disabled of a
\* config file
RECURSIVE ToLaunch(_)
ToLaunch(items) ==
    IF items = << >> THEN << >>
    ELSE IF Head(items).disabled THEN ToLaunch(Tail(items))
    ELSE << Head(items).op >> \o ToLaunch(Tail(items))

DriverToLaunch ==
    IF drv.config # << >> THEN ToLaunch(drv.config) ELSE drv.ops

\* tritonbench_run is followed and is past its entry
DriverRuns == drv.pc \notin { "none", "tritonbench_run" } /\ drv.argv # << >>

DriverStopped == drv.pc \in { "exit", "raised" }

\* C35: a subprocess of run_in_task that exits with a non-zero status does
\* not stop the run: the driver is not stopped after it, the launches go on
\* in order, and a driver that returns has launched every operator or
\* enabled config entry.  A keyboard interrupt during a subprocess of
\* run_in_task ends the driver with exit status 1 and is the last launch.
C35_FailureContinuesInterruptExits ==
    DriverRuns =>
      /\ \A k \in DOMAIN drv.log :
           /\ drv.log[k].op = DriverToLaunch[k]
           /\ (drv.log[k].by = "run_in_task" /\ drv.log[k].result = "nonzero")
                => ~(DriverStopped /\ k = Len(drv.log))
           /\ (drv.log[k].by = "run_in_task" /\ drv.log[k].result = "interrupt")
                => /\ k = Len(drv.log)
                   /\ drv.pc = "exit" /\ drv.end = "exit 1"
      /\ Len(drv.log) <= Len(DriverToLaunch)
      /\ drv.end = "returned" =>
           [ k \in DOMAIN drv.log |-> drv.log[k].op ] = DriverToLaunch
      /\ drv.pc = "exit" =>
           /\ drv.log # << >>
           /\ drv.log[Len(drv.log)].by = "run_in_task"
           /\ drv.log[Len(drv.log)].result = "interrupt"

\* a config file of two enabled entries: the first subprocess exits with a
\* non-zero status, the second is launched and the driver returns
C35_Witness ==
    /\ DriverRuns /\ drv.config # << >> /\ drv.end = "returned"
    /\ Len(drv.log) = MaxEntries
    /\ drv.log[1].by = "run_in_task" /\ drv.log[1].result = "nonzero"
    /\ drv.log[MaxEntries].by = "run_in_task"

\* ------------------------------------------------------------------ C36
\* run_one_operator is followed and has ended
OneOperatorEnded ==
    drv.task_args # << >> /\ drv.pc \in { "done", "raised" }

\* the operator of the call, and the arguments the call was made with
OneOperatorOp == drv.log[1].op
ForwardArgs == drv.log[1].cmd

\* the arguments of the backward run: the forward arguments, the
\* operator's extra arguments when it is listed in BWD_ARGS_OPS, --mode bwd
BackwardArgs ==
    ForwardArgs
      \o (IF OneOperatorOp \in DOMAIN BWD_ARGS_OPS
          THEN BWD_ARGS_OPS[OneOperatorOp] ELSE << >>)
      \o << "--mode", "bwd" >>

\* C36: when run_one_operator has ended, the forward run was made; with
\* with_bwd, an operator that supports backward and is not in FWD_ONLY_OPS
\* it was followed by exactly one backward run with the backward
\* arguments; otherwise the forward run is the only run
C36_BackwardRunFollowsForward ==
    OneOperatorEnded =>
      /\ drv.log # << >>
      /\ IF drv.with_bwd /\ drv.has_bwd /\ OneOperatorOp \notin FWD_ONLY_OPS
         THEN /\ Len(drv.log) = 2
              /\ drv.log[2].by = "op.run"
              /\ drv.log[2].cmd = BackwardArgs
         ELSE Len(drv.log) = 1

\* ------------------------------------------------------------------ C37
\* C37: every subprocess run_in_task launched for a call with a
\* benchmark_name has --benchmark-name followed by that name on its
\* command line
C37_CommandLineNamesBenchmark ==
    \A k \in DOMAIN drv.log :
       (drv.log[k].by = "run_in_task" /\ drv.log[k].name # "")
         => HasParameter(drv.log[k].cmd, "--benchmark-name", drv.log[k].name)

\* ------------------------------------------------------------------ C38
\* C38: a call of _run whose benchmark run raised hands the exception to
\* its caller, and a call of _run hands the metrics to its caller only when
\* the benchmark run raised nothing
C38_RunPropagatesException ==
    \A k \in DOMAIN drv.log :
       drv.log[k].by = "_run" =>
          /\ drv.log[k].result = "raised" => drv.log[k].to_caller = "exception"
          /\ drv.log[k].to_caller = "metrics" => drv.log[k].result = "ok"
====
